---- MODULE Spec2Model ----
(***************************************************************************)
(* TrackFi: the client-side analytics of the household expense tracker.    *)
(*                                                                         *)
(* Representation of the program's values:                                 *)
(*   - a date string "YYYY-MM-DD" is the triple <<y, m, d>>; its prefix    *)
(*     "YYYY-MM" is the pair <<y, m>>; localeCompare on such strings is    *)
(*     the lexicographic order of the triples;                             *)
(*   - a description is a sequence of one-character strings;               *)
(*   - money (numeric(12,2)) is a whole number of cents;                   *)
(*   - a quotient is the exact rational [n |-> numerator, d |-> denom.]    *)
(*     with d > 0; a number rounded to one decimal is a whole number of    *)
(*     tenths;                                                             *)
(*   - `number | null` is [some |-> BOOLEAN, val |-> number].              *)
(***************************************************************************)
EXTENDS Integers, Sequences, FiniteSets, TLC

VARIABLES
    transactions,   \* the DbTransaction[] snapshot handed to the components
    budgets,        \* the DbBudget[] list of useBudgets handed to Summary
    selectedMonth,  \* the "YYYY-MM" month selected on the page
    zone,           \* the time zone of the runtime that renders the page
    clock,          \* the system clock: the epoch day of new Date() in UTC
    recurring,      \* RecurringExpenses: the result of detectRecurring
    dueSoon,        \* RecurringExpenses: isUpcoming of every displayed item
    savings,        \* SavingsRate: monthlyData and the figures derived from it
    progress,       \* Summary: the entries of the Budget Progress block
    view,           \* which component has rendered the snapshot
    dbBudgets,      \* the rows of public.budgets of the household
    handlerBudgets, \* useBudgets: the `budgets` the handlers of the last render closed over
    budgetRequests, \* useBudgets: the requests sent to the database and not yet resolved
    nextBudgetId,   \* the next identifier crypto.randomUUID or gen_random_uuid gives
    budgetCalls,    \* the number of calls of setBudget and removeBudget so far
    importRequest,  \* POST /api/import: the request and the reply of the AI model
    importResponse, \* POST /api/import: the response, as the JSON the client reads
    households,     \* public.households
    members,        \* public.household_members
    inviteRows,     \* public.invites
    rpcCalls,       \* the database transactions in flight, after their checks
    rpcReply,       \* what the most recent call answered
    panelInvites,   \* useHousehold: each user's local copy of the invites
    seatJoins,      \* history: the (invite, user, code) of the successful joins
    nextRowId,      \* the next fresh row id and invite code
    rpcCount,       \* the number of calls so far
    dbTransactions, \* the rows of public.transactions of the household
    handlerTransactions, \* useTransactions: the `transactions` the handlers closed over
    txRequests,     \* useTransactions: the requests sent and not yet resolved
    txEvents,       \* the realtime events of the table not yet delivered
    nextTxId,       \* the next identifier crypto.randomUUID or gen_random_uuid gives
    txCalls,        \* the number of calls of the hook and writes of the partner so far
    browserRequest, \* the middleware: the request the browser sends
    response,       \* the middleware: what updateSession returned for it
    hops,           \* the middleware: the paths the browser was redirected from
    step,           \* SmartImport: 'upload', 'processing', 'review' or 'done'
    extracted,      \* SmartImport: the transactions the route extracted
    selected,       \* SmartImport: the indices checked for import
    wizardError,    \* SmartImport: the `error` message shown
    importMsg,      \* the page: the message of handleSmartImport
    categories,     \* useHousehold: the names of the household's categories
    wizardCall      \* SmartImport: the upload or the import in flight

\* The state of the page and its components
pageVars == <<transactions, selectedMonth, zone, clock, recurring, dueSoon,
              savings, progress, view>>

\* The state of useBudgets and of the table it writes, besides `budgets`
hookVars == <<dbBudgets, handlerBudgets, budgetRequests, nextBudgetId, budgetCalls>>

\* The state outside the page
\* The state of the import route
importVars == <<importRequest, importResponse>>

\* The state of the households, their members and invites
householdVars == <<households, members, inviteRows, rpcCalls, rpcReply, panelInvites,
                   seatJoins, nextRowId, rpcCount>>

\* The state of useTransactions and of the table it writes, besides
\* `transactions`
txVars == <<dbTransactions, handlerTransactions, txRequests, txEvents, nextTxId, txCalls>>

\* The state of the middleware and of the browser following its redirects
sessionVars == <<browserRequest, response, hops>>

\* The state of the SmartImport wizard and of what handleSmartImport writes
wizardVars == <<step, extracted, selected, wizardError, importMsg, categories,
               wizardCall>>

clientVars == <<txVars, sessionVars, wizardVars>>

serviceVars == <<hookVars, importVars, householdVars, clientVars>>

\* What the hook of the budgets leaves alone
outsideHook == <<pageVars, importVars, householdVars, clientVars>>

vars == <<transactions, budgets, selectedMonth, zone, clock, recurring, dueSoon,
          savings, progress, view, serviceVars>>

(***************************************************************************)
(* Generic helpers                                                         *)
(***************************************************************************)
None == [some |-> FALSE, val |-> 0]

Some(v) == [some |-> TRUE, val |-> v]

\* Math.round(n / d) for d > 0: the nearest integer, halves rounded up
MathRound(n, d) ==
    LET q == n \div d
        r == n % d
    IN  IF 2 * r >= d THEN q + 1 ELSE q

RECURSIVE SumSeq(_)
SumSeq(s) == IF s = <<>> THEN 0 ELSE Head(s) + SumSeq(Tail(s))

Sign(x) == IF x < 0 THEN -1 ELSE IF x > 0 THEN 1 ELSE 0

\* Sign of a/b - c/d for a, c >= 0 and b, d > 0, by the continued-fraction
\* expansion of both sides (no product of two operands is formed).
RECURSIVE RatCompare(_, _, _, _)
RatCompare(a, b, c, d) ==
    LET qa == a \div b
        qc == c \div d
        ra == a % b
        rc == c % d
    IN  IF qa # qc THEN Sign(qa - qc)
        ELSE IF ra = 0 /\ rc = 0 THEN 0
        ELSE IF ra = 0 THEN -1
        ELSE IF rc = 0 THEN 1
        ELSE RatCompare(d, rc, b, ra)

\* Array.prototype.sort with a comparator: a stable sort.  cmp[<<j, i>>] is
\* the comparator applied to s[j] and s[i].  Element i goes to the position
\* given by the number of elements that the comparator puts before it, ties
\* broken by the original position.
ArraySort(s, cmp) ==
    LET before(j, i) == cmp[<<j, i>>] < 0 \/ (cmp[<<j, i>>] = 0 /\ j < i)
        rank(i) == Cardinality({j \in DOMAIN s : before(j, i)}) + 1
    IN  [k \in DOMAIN s |-> s[CHOOSE i \in DOMAIN s : rank(i) = k]]

(***************************************************************************)
(* Dates                                                                   *)
(***************************************************************************)
\* new Date("YYYY-MM-DD").getTime() / (1000 * 60 * 60 * 24): a date-only ISO
\* string parses as UTC midnight, a whole number of days since 1970-01-01.
EpochDay(date) ==
    LET y   == IF date[2] <= 2 THEN date[1] - 1 ELSE date[1]
        era == y \div 400
        yoe == y - era * 400
        mp  == (date[2] + 9) % 12
        doy == (153 * mp + 2) \div 5 + date[3] - 1
        doe == yoe * 365 + yoe \div 4 - yoe \div 100 + doy
    IN  era * 146097 + doe - 719468

\* a.localeCompare(b) for two date strings, or two "YYYY-MM" prefixes
LocaleCompare(a, b) ==
    IF a[1] # b[1] THEN Sign(a[1] - b[1])
    ELSE IF a[2] # b[2] THEN Sign(a[2] - b[2])
    ELSE IF Len(a) >= 3 /\ Len(b) >= 3 THEN Sign(a[3] - b[3])
    ELSE Sign(Len(a) - Len(b))

daysBetween(a, b) ==
    LET diff == EpochDay(b) - EpochDay(a)
    IN  IF diff < 0 THEN -diff ELSE diff

\* d.toISOString().split('T')[0]: the UTC calendar date of an epoch day
DateOfEpochDay(day) ==
    LET z   == day + 719468
        era == z \div 146097
        doe == z - era * 146097
        yoe == (doe - (doe \div 1460) + (doe \div 36524) - (doe \div 146096)) \div 365
        doy == doe - (365 * yoe + (yoe \div 4) - (yoe \div 100))
        mp  == (5 * doy + 2) \div 153
        d   == doy - ((153 * mp + 2) \div 5) + 1
        m   == IF mp < 10 THEN mp + 3 ELSE mp - 9
        y   == yoe + era * 400
    IN  <<IF m <= 2 THEN y + 1 ELSE y, m, d>>

\* The time zones a runtime may be in: one without daylight saving time and
\* one with it (Central European Time, 2024: in force at 01:00 and 02:00
\* local time of the days after 31 March up to 27 October).
Zones == {"UTC", "Europe/Berlin"}

DaylightSaving(z, day) ==
    /\ z = "Europe/Berlin"
    /\ EpochDay(<<2024, 3, 31>>) < day
    /\ day <= EpochDay(<<2024, 10, 27>>)

\* Variant: the days are added to the UTC date.
addDays_Utc(dateStr, days) == DateOfEpochDay(EpochDay(dateStr) + days)

\* new Date(dateStr) is midnight UTC of the date; setDate moves the local
\* calendar date and keeps the local time of day, so the instant moves by
\* `days` days less the change of the zone's offset, and toISOString gives
\* the UTC date of that instant: the day before when the clock went forward.
addDays(dateStr, days) ==
    LET start  == EpochDay(dateStr)
        target == start + days
    IN  IF ~DaylightSaving(zone, start) /\ DaylightSaving(zone, target)
        THEN DateOfEpochDay(target - 1)
        ELSE DateOfEpochDay(target)

\* The lower amounts (in cents, 9.90 to 12.10) of the one-cent steps whose
\* difference as IEEE-754 doubles is above the double 0.01
OneCentStepsAboveThreshold ==
    {995, 1004, 1012, 1020, 1029, 1037, 1045, 1054, 1062, 1070, 1079, 1087,
     1095, 1104, 1112, 1120, 1129, 1137, 1145, 1154, 1162, 1170, 1179, 1187,
     1195, 1204}

\* Math.abs(last - prev) > 0.01 on the doubles of two amounts of cents
DiffersByMoreThanACent(prev, last) ==
    LET low  == IF prev < last THEN prev ELSE last
        high == IF prev < last THEN last ELSE prev
    IN  IF high - low = 1 THEN low \in OneCentStepsAboveThreshold
        ELSE high - low > 1

(***************************************************************************)
(* Descriptions                                                            *)
(***************************************************************************)
IsWhiteSpace(c) == c = " "

ToLowerChar(c) ==
    CASE c = "H" -> "h"
      [] c = "B" -> "b"
      [] c = "O" -> "o"
      [] c = "G" -> "g"
      [] OTHER -> c

RECURSIVE TrimStart(_)
TrimStart(s) ==
    IF s # <<>> /\ IsWhiteSpace(Head(s)) THEN TrimStart(Tail(s)) ELSE s

RECURSIVE TrimEnd(_)
TrimEnd(s) ==
    IF s # <<>> /\ IsWhiteSpace(s[Len(s)])
    THEN TrimEnd(SubSeq(s, 1, Len(s) - 1))
    ELSE s

\* Variant: the white space inside the description is removed too.
NormalizeDescription_DropsInnerSpace(description) ==
    LET kept == SelectSeq(description, LAMBDA c : ~IsWhiteSpace(c))
    IN  [i \in DOMAIN kept |-> ToLowerChar(kept[i])]

\* description.trim().toLowerCase()
NormalizeDescription(description) ==
    LET trimmed == TrimEnd(TrimStart(description))
    IN  [i \in DOMAIN trimmed |-> ToLowerChar(trimmed[i])]

(***************************************************************************)
(* RecurringExpenses.tsx                                                   *)
(***************************************************************************)
Frequencies == {"weekly", "biweekly", "monthly", "quarterly"}

NoFrequency == "null"

\* Variant: the weekly range reaches up to 11 days.
classifyFrequency_WeeklyUpTo11(medianInterval) ==
    LET n == medianInterval.n
        d == medianInterval.d
    IN  IF n >= 5 * d /\ n <= 11 * d THEN "weekly"
        ELSE IF n >= 12 * d /\ n <= 18 * d THEN "biweekly"
        ELSE IF n >= 25 * d /\ n <= 38 * d THEN "monthly"
        ELSE IF n >= 80 * d /\ n <= 100 * d THEN "quarterly"
        ELSE "null"

classifyFrequency(medianInterval) ==
    LET n == medianInterval.n
        d == medianInterval.d
    IN  IF n >= 5 * d /\ n <= 10 * d THEN "weekly"
        ELSE IF n >= 12 * d /\ n <= 18 * d THEN "biweekly"
        ELSE IF n >= 25 * d /\ n <= 38 * d THEN "monthly"
        ELSE IF n >= 80 * d /\ n <= 100 * d THEN "quarterly"
        ELSE NoFrequency

\* Variant: a month counted as 4 weeks.
monthlyEquivalent_FourWeeks(amount, frequency) ==
    CASE frequency = "weekly"    -> [n |-> amount.n * 4, d |-> amount.d]
      [] frequency = "biweekly"  -> [n |-> amount.n * 2, d |-> amount.d]
      [] frequency = "monthly"   -> amount
      [] frequency = "quarterly" -> [n |-> amount.n, d |-> amount.d * 3]

\* amount * 4.33, amount * 2.17, amount, amount / 3
monthlyEquivalent(amount, frequency) ==
    CASE frequency = "weekly"    -> [n |-> amount.n * 433, d |-> amount.d * 100]
      [] frequency = "biweekly"  -> [n |-> amount.n * 217, d |-> amount.d * 100]
      [] frequency = "monthly"   -> amount
      [] frequency = "quarterly" -> [n |-> amount.n, d |-> amount.d * 3]

NumberCompare(a, b) == Sign(a - b)

median(values) ==
    LET sorted == ArraySort(values, [p \in (DOMAIN values) \X (DOMAIN values) |->
                                         NumberCompare(values[p[1]], values[p[2]])])
        mid    == Len(sorted) \div 2
    IN  IF Len(sorted) % 2 = 0
        THEN [n |-> sorted[mid] + sorted[mid + 1], d |-> 2]
        ELSE [n |-> sorted[mid + 1], d |-> 1]

\* sum((v - mean)^2) / N with mean = S / N, that is (N * sum(v^2) - S^2) / N^2
variance(intervals) ==
    LET N  == Len(intervals)
        S  == SumSeq(intervals)
        SS == SumSeq([i \in DOMAIN intervals |-> intervals[i] * intervals[i]])
    IN  [n |-> N * SS - S * S, d |-> N * N]

\* Variant: the sample variance, divided by N - 1 (0 / 0 is NaN for a
\* single interval, and NaN > x is false).
IsIrregular_SampleVariance(intervals, medianInterval) ==
    LET N == Len(intervals)
        v == variance(intervals)
    IN  /\ N > 1
        /\ v.n * 400 * medianInterval.d * medianInterval.d
               > 49 * medianInterval.n * medianInterval.n * N * (N - 1)

\* stdDev > medianInterval * 0.35 with stdDev = Math.sqrt(variance): both
\* sides are non-negative, so it is variance > (medianInterval * 7 / 20)^2.
IsIrregular(intervals, medianInterval) ==
    LET v == variance(intervals)
    IN  v.n * 400 * medianInterval.d * medianInterval.d
            > 49 * medianInterval.n * medianInterval.n * v.d

\* Variant: income rows are not filtered out.
expensesOf_IncomeKept(txs) == txs

expensesOf(txs) == SelectSeq(txs, LAMBDA t : ~t.is_income)

\* The keys of the Map `groups` in insertion order: the normalized
\* descriptions in the order of their first occurrence.
RECURSIVE GroupKeys(_, _)
GroupKeys(expenses, seen) ==
    IF expenses = <<>> THEN seen
    ELSE LET key == NormalizeDescription(Head(expenses).description)
         IN  IF \E i \in DOMAIN seen : seen[i] = key
             THEN GroupKeys(Tail(expenses), seen)
             ELSE GroupKeys(Tail(expenses), Append(seen, key))

GroupOf(expenses, key) ==
    SelectSeq(expenses, LAMBDA t : NormalizeDescription(t.description) = key)

ByDateAscending(a, b) == LocaleCompare(a.date, b.date)

intervalsOf(sorted) ==
    [i \in 1..(Len(sorted) - 1) |-> daysBetween(sorted[i].date, sorted[i + 1].date)]

frequencyToDays(f) ==
    CASE f = "weekly"    -> 7
      [] f = "biweekly"  -> 14
      [] f = "monthly"   -> 30
      [] f = "quarterly" -> 90

\* Variant: the change is reported whenever the two amounts differ.
\* Variant: the threshold is ten cents, Math.abs(last - prev) > 0.1.
priceChangeOf_AboveTenCents(amounts) ==
    LET prev == amounts[Len(amounts) - 1]
        last == amounts[Len(amounts)]
    IN  IF Len(amounts) >= 2 /\ prev > 0 /\ (last - prev > 10 \/ prev - last > 10)
        THEN Some(MathRound((last - prev) * 1000, prev))
        ELSE None

\* priceChange in tenths of a percent:
\* Math.round(((last - prev) / prev) * 1000) / 10, or null
priceChangeOf(amounts) ==
    LET prev == amounts[Len(amounts) - 1]
        last == amounts[Len(amounts)]
    IN  IF Len(amounts) >= 2 /\ prev > 0 /\ DiffersByMoreThanACent(prev, last)
        THEN Some(MathRound((last - prev) * 1000, prev))
        ELSE None

\* One iteration of the loop over the groups: the item pushed to `results`,
\* or None when the loop continues without pushing.
RecurringItem(group) ==
    LET sorted         == ArraySort(group, [p \in (DOMAIN group) \X (DOMAIN group) |->
                                            ByDateAscending(group[p[1]], group[p[2]])])
        intervals      == intervalsOf(sorted)
        medianInterval == median(intervals)
        frequency      == classifyFrequency(medianInterval)
        amounts        == [i \in DOMAIN sorted |-> sorted[i].amount]
        latest         == sorted[Len(sorted)]
    IN  IF Len(group) < 2 THEN None
        ELSE IF frequency = NoFrequency THEN None
        ELSE IF IsIrregular(intervals, medianInterval) THEN None
        ELSE Some([description |-> latest.description,
                   category    |-> latest.category,
                   avgAmount   |-> [n |-> SumSeq(amounts), d |-> Len(amounts)],
                   frequency   |-> frequency,
                   occurrences |-> Len(sorted),
                   lastDate    |-> latest.date,
                   nextExpected |-> addDays(latest.date, frequencyToDays(frequency)),
                   amounts     |-> amounts,
                   priceChange |-> priceChangeOf(amounts)])

\* (a, b) => monthlyEquivalent(b.avgAmount, b.frequency)
\*             - monthlyEquivalent(a.avgAmount, a.frequency)
ByMonthlyCostDescending(a, b) ==
    LET ma == monthlyEquivalent(a.avgAmount, a.frequency)
        mb == monthlyEquivalent(b.avgAmount, b.frequency)
    IN  RatCompare(mb.n, mb.d, ma.n, ma.d)

\* The description of a row that has none: null or undefined
MissingDescription == <<"undefined">>

\* t.description.trim() throws a TypeError when the description of an
\* expense is null or undefined; the rows filtered out are never read.
detectRecurringThrows(txs) ==
    \E i \in DOMAIN expensesOf(txs) : expensesOf(txs)[i].description = MissingDescription

\* Variant: the groups are filled from all the rows, not from `expenses`.
detectRecurring_GroupsAllRows(txs) ==
    LET keys     == GroupKeys(txs, <<>>)
        items    == [i \in DOMAIN keys |-> RecurringItem(GroupOf(txs, keys[i]))]
        pushed   == SelectSeq(items, LAMBDA r : r.some)
        results  == [i \in DOMAIN pushed |-> pushed[i].val]
    IN  ArraySort(results, [p \in (DOMAIN results) \X (DOMAIN results) |->
                               ByMonthlyCostDescending(results[p[1]], results[p[2]])])

detectRecurring(txs) ==
    LET expenses == expensesOf(txs)
        keys     == GroupKeys(expenses, <<>>)
        items    == [i \in DOMAIN keys |-> RecurringItem(GroupOf(expenses, keys[i]))]
        pushed   == SelectSeq(items, LAMBDA r : r.some)
        results  == [i \in DOMAIN pushed |-> pushed[i].val]
    IN  ArraySort(results, [p \in (DOMAIN results) \X (DOMAIN results) |->
                               ByMonthlyCostDescending(results[p[1]], results[p[2]])])

\* recurring.slice(0, 5): `expanded` is false until the user expands the list
displayItems(items) == SubSeq(items, 1, IF Len(items) < 5 THEN Len(items) ELSE 5)

\* Variant: the reminder ignores the date of the render.
isUpcoming_WithinAWeekOfLastDate(item, today) ==
    daysBetween(item.lastDate, item.nextExpected) <= 7

\* item.nextExpected >= today && daysBetween(today, item.nextExpected) <= 7
isUpcoming(item, today) ==
    /\ LocaleCompare(item.nextExpected, today) >= 0
    /\ daysBetween(today, item.nextExpected) <= 7

\* const today = new Date().toISOString().split('T')[0], and the flag of
\* every displayed item
dueSoonFlags(items, now) ==
    LET today == DateOfEpochDay(now)
        shown == displayItems(items)
    IN  [i \in DOMAIN shown |-> isUpcoming(shown[i], today)]

(***************************************************************************)
(* SavingsRate (src/unnamed/part_002)                                      *)
(***************************************************************************)
\* floor(rem * 2^bits / d) + y * 2^bits for 0 <= rem < d, by long division
RECURSIVE FixedQuotient(_, _, _, _)
FixedQuotient(y, rem, d, bits) ==
    IF bits = 0 THEN y
    ELSE IF 2 * rem >= d THEN FixedQuotient(2 * y + 1, 2 * rem - d, d, bits - 1)
    ELSE FixedQuotient(2 * y, 2 * rem, d, bits - 1)

\* The largest e with p >= q * 2^e, for p >= q > 0
RECURSIVE Log2Exponent(_, _, _)
Log2Exponent(p, q, e) ==
    IF p >= 2 * q THEN Log2Exponent(p, 2 * q, e + 1) ELSE e

\* The first `bits` binary digits of log2(y / 2^28) for 2^28 <= y < 2^29:
\* squaring doubles the logarithm, and its integer part is the next digit.
\* The square is formed from the two 14-bit halves of y.
RECURSIVE Log2Fraction(_, _, _)
Log2Fraction(y, frac, bits) ==
    LET a  == y \div 16384
        b  == y % 16384
        sq == a * a + (2 * a * b) \div 16384 + (b * b) \div 268435456
    IN  IF bits = 0 THEN frac
        ELSE IF sq >= 536870912 THEN Log2Fraction(sq \div 2, 2 * frac + 1, bits - 1)
        ELSE Log2Fraction(sq, 2 * frac, bits - 1)

\* Math.round(Math.log(p / q) / Math.log(1.05) * 10) for p >= q > 0, in fixed
\* point: log2(p / q) to 20 binary digits, divided by log2(1.05) =
\* 1180937 / (16 * 2^20).  The value equals that of the floating-point
\* expression for every p / q that calcYearsToFI forms from a rate given in
\* tenths between 0.1 and 99.9.
LogBase105Tenths(p, q) ==
    LET e    == Log2Exponent(p, q, 0)
        d    == q * 2 ^ e
        y    == FixedQuotient(p \div d, p % d, d, 28)
        frac == Log2Fraction(y, 0, 20)
    IN  MathRound((e * 1048576 + frac) * 160, 1180937)

\* Variant: a rate of exactly 0 passes the first guard; the quotient by
\* s = 0 is Infinity, written as the largest integer.
calcYearsToFI_ZeroRateAccepted(savingsRate) ==
    IF savingsRate < 0 THEN None
    ELSE IF savingsRate >= 1000 THEN Some(0)
    ELSE IF savingsRate = 0 THEN Some(2147483647)
    ELSE Some(LogBase105Tenths(5000 - savingsRate, 4 * savingsRate))

\* savingsRate is in tenths of a percent, s = savingsRate / 1000, r = 0.05:
\* 1 + 25 * (1 - s) * r / s = (5000 - savingsRate) / (4 * savingsRate)
calcYearsToFI(savingsRate) ==
    IF savingsRate <= 0 THEN None
    ELSE IF savingsRate >= 1000 THEN Some(0)
    ELSE Some(LogBase105Tenths(5000 - savingsRate, 4 * savingsRate))

\* t.date.slice(0, 7)
MonthOf(date) == <<date[1], date[2]>>

\* The keys of monthMap in insertion order
RECURSIVE MonthKeys(_, _)
MonthKeys(txs, seen) ==
    IF txs = <<>> THEN seen
    ELSE LET month == MonthOf(Head(txs).date)
         IN  IF \E i \in DOMAIN seen : seen[i] = month
             THEN MonthKeys(Tail(txs), seen)
             ELSE MonthKeys(Tail(txs), Append(seen, month))

\* Variant: an income is added to the expenses of its month as well.
MonthEntry_IncomeAlsoSpent(txs, month) ==
    LET ofMonth == SelectSeq(txs, LAMBDA t : MonthOf(t.date) = month)
        incomes == SelectSeq(ofMonth, LAMBDA t : t.is_income)
    IN  [month    |-> month,
         income   |-> SumSeq([i \in DOMAIN incomes |-> incomes[i].amount]),
         expenses |-> SumSeq([i \in DOMAIN ofMonth |-> ofMonth[i].amount])]

\* monthMap.get(month) after the loop over the transactions
MonthEntry(txs, month) ==
    LET ofMonth == SelectSeq(txs, LAMBDA t : MonthOf(t.date) = month)
        incomes == SelectSeq(ofMonth, LAMBDA t : t.is_income)
        others  == SelectSeq(ofMonth, LAMBDA t : ~t.is_income)
    IN  [month    |-> month,
         income   |-> SumSeq([i \in DOMAIN incomes |-> incomes[i].amount]),
         expenses |-> SumSeq([i \in DOMAIN others |-> others[i].amount])]

\* Variant: newest month first.
ByMonthAscending_Reversed(a, b) == LocaleCompare(b.month, a.month)

\* (a, b) => a[0].localeCompare(b[0])
ByMonthAscending(a, b) == LocaleCompare(a.month, b.month)

\* Variant: the tenths are truncated instead of rounded.
RatioTenths_Truncated(income, expenses) ==
    IF income > 0 THEN (1000 * (income - expenses)) \div income ELSE 0

\* Math.round(savingsRate * 10) / 10 in tenths, with
\* savingsRate = income > 0 ? ((income - expenses) / income) * 100 : 0
RatioTenths(income, expenses) ==
    IF income > 0 THEN MathRound(1000 * (income - expenses), income) ELSE 0

getMonthlyData(txs) ==
    LET keys    == MonthKeys(txs, <<>>)
        entries == [i \in DOMAIN keys |-> MonthEntry(txs, keys[i])]
        sorted  == ArraySort(entries, [p \in (DOMAIN entries) \X (DOMAIN entries) |->
                                          ByMonthAscending(entries[p[1]], entries[p[2]])])
    IN  [i \in DOMAIN sorted |->
            [month       |-> sorted[i].month,
             income      |-> sorted[i].income,
             expenses    |-> sorted[i].expenses,
             savingsRate |-> RatioTenths(sorted[i].income, sorted[i].expenses)]]

\* data.slice(-months)
LastMonths(data, months) ==
    SubSeq(data, IF Len(data) > months THEN Len(data) - months + 1 ELSE 1, Len(data))

\* Variant: the mean of the per-month rates of the last months.
calcRollingAverage_MeanOfRates(data, months) ==
    LET recent == LastMonths(data, months)
    IN  IF Len(data) < months THEN None
        ELSE Some(MathRound(SumSeq([i \in DOMAIN recent |-> recent[i].savingsRate]), months))

calcRollingAverage(data, months) ==
    LET recent        == LastMonths(data, months)
        totalIncome   == SumSeq([i \in DOMAIN recent |-> recent[i].income])
        totalExpenses == SumSeq([i \in DOMAIN recent |-> recent[i].expenses])
    IN  IF Len(data) < months THEN None
        ELSE IF totalIncome = 0 THEN None
        ELSE Some(MathRound(1000 * (totalIncome - totalExpenses), totalIncome))

\* The figures of the component; nothing but the hint to add income is
\* shown when no month has income.
SavingsRate(txs) ==
    LET monthlyData == getMonthlyData(txs)
        hasIncome   == \E i \in DOMAIN monthlyData : monthlyData[i].income > 0
        current     == monthlyData[Len(monthlyData)]
    IN  IF ~hasIncome
        THEN [hasIncome |-> FALSE, monthlyData |-> monthlyData, current |-> None,
              rolling3 |-> None, rolling12 |-> None, yearsToFI |-> None]
        ELSE [hasIncome   |-> TRUE,
              monthlyData |-> monthlyData,
              current     |-> Some(current),
              rolling3    |-> calcRollingAverage(monthlyData, 3),
              rolling12   |-> calcRollingAverage(monthlyData, 12),
              yearsToFI   |-> calcYearsToFI(current.savingsRate)]

(***************************************************************************)
(* Summary (src/unnamed/part_005): Budget Progress                         *)
(***************************************************************************)
\* t.date.startsWith(selectedMonth)
StartsWith(date, prefix) ==
    /\ Len(prefix) <= Len(date)
    /\ \A i \in DOMAIN prefix : date[i] = prefix[i]

\* Variant: the month filter is missing.
monthTransactions_AllMonths(txs, month) == txs

monthTransactions(txs, month) ==
    SelectSeq(txs, LAMBDA t : StartsWith(t.date, month))

expenseTransactions(txs, month) ==
    SelectSeq(monthTransactions(txs, month), LAMBDA t : ~t.is_income)

\* spendingByCategory.get(category) || 0
spendingByCategory(txs, month, category) ==
    LET ofCategory == SelectSeq(expenseTransactions(txs, month),
                                LAMBDA t : t.category = category)
    IN  SumSeq([i \in DOMAIN ofCategory |-> ofCategory[i].amount])

\* Variant: the percentage itself is capped at 100.
BudgetPercent_Capped(spent, limit) ==
    IF limit > 0
    THEN (IF spent * 100 > 100 * limit THEN [n |-> 100, d |-> 1]
          ELSE [n |-> spent * 100, d |-> limit])
    ELSE [n |-> 0, d |-> 1]

\* pct = limit > 0 ? (spent / limit) * 100 : 0
BudgetPercent(spent, limit) ==
    IF limit > 0 THEN [n |-> spent * 100, d |-> limit] ELSE [n |-> 0, d |-> 1]

\* Math.min(pct, 100)
ClampPercent(pct) ==
    IF pct.n > 100 * pct.d THEN [n |-> 100, d |-> 1] ELSE pct

\* budgets.length > 0 && budgets.map(budget => ...)
BudgetProgress(txs, budgetList, month) ==
    [i \in DOMAIN budgetList |->
        LET spent == spendingByCategory(txs, month, budgetList[i].category)
            limit == budgetList[i].amount_limit
            pct   == BudgetPercent(spent, limit)
        IN  [id       |-> budgetList[i].id,
             category |-> budgetList[i].category,
             spent    |-> spent,
             limit    |-> limit,
             pct      |-> pct,
             clamped  |-> ClampPercent(pct)]]

(***************************************************************************)
(* Input snapshots                                                         *)
(***************************************************************************)
\* Nothing outside the page is in progress.
HookIdle ==
    /\ dbBudgets = {}
    /\ handlerBudgets = <<>>
    /\ budgetRequests = {}
    /\ nextBudgetId = 1
    /\ budgetCalls = 0

\* The page and its components at rest
PageIdle ==
    /\ transactions = <<>>
    /\ selectedMonth = <<2024, 1>>
    /\ zone = "UTC"
    /\ clock = EpochDay(<<2024, 1, 20>>)
    /\ recurring = <<>>
    /\ dueSoon = <<>>
    /\ savings = SavingsRate(<<>>)
    /\ progress = <<>>
    /\ view = "none"

\* A JavaScript value: undefined, null, a boolean, a string (`str`, a
\* sequence of characters) or a number (`kind` finite, nan, inf or -inf; a
\* finite number is `num` hundredths)
JsValue(type, kind, num, str) == [type |-> type, kind |-> kind, num |-> num, str |-> str]

JsUndefined == JsValue("undefined", "", 0, <<>>)

JsNull == JsValue("null", "", 0, <<>>)

JsString(str) == JsValue("string", "", 0, str)

JsNumber(num) == JsValue("number", "finite", num, <<>>)

JsInfinity == JsValue("number", "inf", 0, <<>>)

JsNegativeInfinity == JsValue("number", "-inf", 0, <<>>)

JsNaN == JsValue("number", "nan", 0, <<>>)

ImportIdle ==
    /\ importRequest = JsNull
    /\ importResponse = JsNull

NoReply == [call |-> 0, caller |-> "", kind |-> "", error |-> ""]

HouseholdIdle ==
    /\ households = {}
    /\ members = {}
    /\ inviteRows = {}
    /\ rpcCalls = {}
    /\ rpcReply = NoReply
    /\ panelInvites = <<>>
    /\ seatJoins = {}
    /\ nextRowId = 1
    /\ rpcCount = 0

TxIdle ==
    /\ dbTransactions = {}
    /\ handlerTransactions = <<>>
    /\ txRequests = {}
    /\ txEvents = <<>>
    /\ nextTxId = 1
    /\ txCalls = 0

NoResponse == [kind |-> "none", pathname |-> ""]

SessionIdle ==
    /\ browserRequest = [pathname |-> "/", code |-> FALSE, user |-> FALSE]
    /\ response = NoResponse
    /\ hops = <<>>

NoWizardCall == [kind |-> "none", rows |-> <<>>]

NoImportMsg == [type |-> "none", count |-> 0]

WizardIdle ==
    /\ step = "upload"
    /\ extracted = <<>>
    /\ selected = {}
    /\ wizardError = ""
    /\ importMsg = NoImportMsg
    /\ categories = {}
    /\ wizardCall = NoWizardCall

ClientsIdle == TxIdle /\ SessionIdle /\ WizardIdle

ServicesIdle == HookIdle /\ ImportIdle /\ HouseholdIdle /\ ClientsIdle

MaxTransactions == 5

Transaction(date, description, amount, category, is_income) ==
    [date |-> date, description |-> description, amount |-> amount,
     category |-> category, is_income |-> is_income]

DescHBO == <<"H", "B", "O">>

DescHboPadded == <<" ", "h", "b", "o", " ">>

DescGym == <<"G", "y", "m">>

\* 2024-01-01 plus 0, 7, 14, 21, 26, 56, 86, 116 and 221 days
SpacingDates ==
    {<<2024, 1, 1>>, <<2024, 1, 8>>, <<2024, 1, 15>>, <<2024, 1, 22>>,
     <<2024, 1, 27>>, <<2024, 2, 26>>, <<2024, 3, 27>>, <<2024, 4, 26>>,
     <<2024, 8, 9>>}

RecurringRows ==
    {Transaction(date, DescHBO, 1000, "subscriptions", FALSE) : date \in SpacingDates}
    \cup {Transaction(date, DescGym, 4000, "health", FALSE) :
              date \in {<<2024, 1, 1>>, <<2024, 1, 27>>}}
    \cup {Transaction(<<2024, 1, 8>>, DescHboPadded, 1200, "leisure", FALSE),
          Transaction(<<2024, 1, 15>>, DescHBO, 1000, "salary", TRUE)}

\* The rows in the order of fetchTransactions, .order('date', {ascending:
\* false}): date descending, rows of one date in any order.
RECURSIVE FetchedRows(_, _)
FetchedRows(rows, n) ==
    IF n = 0 THEN {<<>>}
    ELSE LET shorter == FetchedRows(rows, n - 1)
         IN  shorter \cup
             {Append(p[1], p[2]) :
                 p \in {q \in shorter \X rows :
                          /\ Len(q[1]) = n - 1
                          /\ \/ q[1] = <<>>
                             \/ LocaleCompare(q[2].date, q[1][Len(q[1])].date) <= 0}}

WithIds(rows) == [i \in DOMAIN rows |-> [id |-> i] @@ rows[i]]

(***************************************************************************)
(* Specification of the recurring-expense view                             *)
(***************************************************************************)
InitRecurring ==
    /\ transactions \in {WithIds(rows) : rows \in FetchedRows(RecurringRows, MaxTransactions)}
    /\ budgets = <<>>
    /\ selectedMonth = <<2024, 1>>
    /\ zone = "UTC"
    /\ clock = EpochDay(<<2024, 1, 20>>)
    /\ recurring = <<>>
    /\ dueSoon = <<>>
    /\ savings = SavingsRate(<<>>)
    /\ progress = <<>>
    /\ view = "none"
    /\ ServicesIdle

\* Variant: the rows are sorted where they are, transactions.sort(...),
\* instead of in the copy [...group].
RenderRecurringExpenses_SortsInput ==
    /\ view \in {"none", "stale"}
    /\ IF detectRecurringThrows(transactions)
       THEN /\ view' = "error"
            /\ UNCHANGED <<recurring, dueSoon>>
       ELSE /\ recurring' = detectRecurring(transactions)
            /\ dueSoon' = dueSoonFlags(detectRecurring(transactions), clock)
            /\ view' = "recurring"
    /\ transactions' = ArraySort(transactions,
           [p \in (DOMAIN transactions) \X (DOMAIN transactions) |->
               ByDateAscending(transactions[p[1]], transactions[p[2]])])
    /\ UNCHANGED <<budgets, selectedMonth, zone, clock, savings, progress, serviceVars>>

\* RecurringExpenses({ transactions }): const recurring = detectRecurring(transactions);
\* an error thrown while rendering leaves the view without a result.
RenderRecurringExpenses ==
    /\ view \in {"none", "stale"}
    /\ IF detectRecurringThrows(transactions)
       THEN /\ view' = "error"
            /\ UNCHANGED <<recurring, dueSoon>>
       ELSE /\ recurring' = detectRecurring(transactions)
            /\ dueSoon' = dueSoonFlags(detectRecurring(transactions), clock)
            /\ view' = "recurring"
    /\ UNCHANGED <<transactions, budgets, selectedMonth, zone, clock, savings, progress, serviceVars>>

NextRecurring == RenderRecurringExpenses

SpecRecurring == InitRecurring /\ [][NextRecurring]_vars

(***************************************************************************)
(* Specification of the grouping by description                            *)
(***************************************************************************)
MaxDescriptionRows == 3

DescSplit == <<"H", " ", "B", "O">>

DescEmpty == <<>>

DescBlank == <<" ", " ">>

\* Weekly expenses under descriptions that differ in case, in surrounding
\* or inner white space, that are empty or blank, or that are missing; and
\* an income row without a description
DescriptionRows ==
    {Transaction(date, description, 1000, "subscriptions", FALSE) :
         date \in {<<2024, 1, 1>>, <<2024, 1, 8>>, <<2024, 1, 15>>},
         description \in {DescHBO, DescHboPadded, DescSplit, DescEmpty, DescBlank,
                          MissingDescription}}
    \cup {Transaction(<<2024, 1, 8>>, MissingDescription, 1000, "salary", TRUE)}

InitDescriptions ==
    /\ transactions \in {WithIds(rows) : rows \in FetchedRows(DescriptionRows, MaxDescriptionRows)}
    /\ budgets = <<>>
    /\ selectedMonth = <<2024, 1>>
    /\ zone = "UTC"
    /\ clock = EpochDay(<<2024, 1, 20>>)
    /\ recurring = <<>>
    /\ dueSoon = <<>>
    /\ savings = SavingsRate(<<>>)
    /\ progress = <<>>
    /\ view = "none"
    /\ ServicesIdle

NextDescriptions == RenderRecurringExpenses

SpecDescriptions == InitDescriptions /\ [][NextDescriptions]_vars

MaxPriceRows == 3

\* A weekly expense whose amount is 0, stays, or moves by a cent or by more
PriceRows ==
    {Transaction(date, DescHBO, amount, "subscriptions", FALSE) :
         date \in {<<2024, 1, 1>>, <<2024, 1, 8>>, <<2024, 1, 15>>},
         amount \in {0, 1000, 1001, 1004, 1005, 1200}}

InitPriceChange ==
    /\ transactions \in {WithIds(rows) : rows \in FetchedRows(PriceRows, MaxPriceRows)}
    /\ budgets = <<>>
    /\ selectedMonth = <<2024, 1>>
    /\ zone = "UTC"
    /\ clock = EpochDay(<<2024, 1, 20>>)
    /\ recurring = <<>>
    /\ dueSoon = <<>>
    /\ savings = SavingsRate(<<>>)
    /\ progress = <<>>
    /\ view = "none"
    /\ ServicesIdle

NextPriceChange == RenderRecurringExpenses

SpecPriceChange == InitPriceChange /\ [][NextPriceChange]_vars

(***************************************************************************)
(* Specification of the reminders of the recurring-expense view            *)
(***************************************************************************)
MaxDueRows == 4

MaxClockDays == 10

\* A weekly subscription last paid on 2024-03-25, a monthly one last paid
\* on 2024-03-26 and a monthly one last paid on 2024-02-24
DueRows ==
    {Transaction(date, DescHBO, 1000, "subscriptions", FALSE) :
         date \in {<<2024, 3, 11>>, <<2024, 3, 18>>, <<2024, 3, 25>>}}
    \cup {Transaction(date, DescGym, 4000, "health", FALSE) :
              date \in {<<2024, 1, 25>>, <<2024, 2, 24>>, <<2024, 3, 26>>}}

FirstClockDay == EpochDay(<<2024, 3, 23>>)

InitDueSoon ==
    /\ transactions \in {WithIds(rows) : rows \in FetchedRows(DueRows, MaxDueRows)}
    /\ budgets = <<>>
    /\ selectedMonth = <<2024, 3>>
    /\ zone \in Zones
    /\ clock = FirstClockDay
    /\ recurring = <<>>
    /\ dueSoon = <<>>
    /\ savings = SavingsRate(<<>>)
    /\ progress = <<>>
    /\ view = "none"
    /\ ServicesIdle

\* Home: onMonthChange={setSelectedMonth}; the new state renders the page,
\* and with it RecurringExpenses, again.
SelectMonth ==
    /\ view = "recurring"
    /\ selectedMonth' \in {<<2024, 3>>, <<2024, 4>>} \ {selectedMonth}
    /\ view' = "stale"
    /\ UNCHANGED <<transactions, budgets, zone, clock, recurring, dueSoon, savings, progress, serviceVars>>

\* The system clock reaches the next day.
AdvanceClock ==
    /\ clock < FirstClockDay + MaxClockDays
    /\ clock' = clock + 1
    /\ UNCHANGED <<transactions, budgets, selectedMonth, zone, recurring, dueSoon,
                   savings, progress, view, serviceVars>>

NextDueSoon == RenderRecurringExpenses \/ SelectMonth \/ AdvanceClock

SpecDueSoon == InitDueSoon /\ [][NextDueSoon]_vars

(***************************************************************************)
(* Specification of the savings-rate view                                  *)
(***************************************************************************)
MaxSavingsRows == 3

MaxMonths == 13

RecentMonths == 4

SavingsRows ==
    {Transaction(date, <<"x">>, kind[1], "other", kind[2]) :
        date \in {<<2023, 12, 31>>, <<2024, 1, 1>>, <<2024, 1, 31>>, <<2024, 2, 15>>},
        kind \in {<<100000, TRUE>>, <<30000, TRUE>>, <<70000, FALSE>>}}

\* Every sequence of at most n rows, in any order
RECURSIVE RowLists(_, _)
RowLists(rows, n) ==
    IF n = 0 THEN {<<>>}
    ELSE LET shorter == RowLists(rows, n - 1)
         IN  shorter \cup {Append(l, t) : l \in {x \in shorter : Len(x) = n - 1}, t \in rows}

\* The k-th month counted from January 2023
MonthNumber(k, day) == <<2023 + ((k - 1) \div 12), ((k - 1) % 12) + 1, day>>

\* A month with a salary of 1000.00 and expenses of 700.00
EarningMonth(k) ==
    <<Transaction(MonthNumber(k, 15), <<"x">>, 70000, "other", FALSE),
      Transaction(MonthNumber(k, 1), <<"x">>, 100000, "salary", TRUE)>>

\* A month with expenses of 300.00 and no income
SpendingMonth(k) ==
    <<Transaction(MonthNumber(k, 10), <<"x">>, 30000, "other", FALSE)>>

\* A month with income of 300.00 and expenses of 700.00
OverspentMonth(k) ==
    <<Transaction(MonthNumber(k, 20), <<"x">>, 70000, "other", FALSE),
      Transaction(MonthNumber(k, 2), <<"x">>, 30000, "salary", TRUE)>>

\* The histories of months 1..k of n consecutive months, newest first as
\* fetchTransactions orders them: the newest RecentMonths months are each
\* an earning or a spending month, the oldest month is of any of the three
\* kinds, and the months between are earning months
RECURSIVE MonthHistories(_, _)
MonthHistories(k, n) ==
    IF k = 0 THEN {<<>>}
    ELSE {EarningMonth(k) \o h : h \in MonthHistories(k - 1, n)}
         \cup (IF k > n - RecentMonths \/ k = 1
               THEN {SpendingMonth(k) \o h : h \in MonthHistories(k - 1, n)}
               ELSE {})
         \cup (IF k = 1 THEN {OverspentMonth(k)} ELSE {})

SavingsSnapshots ==
    RowLists(SavingsRows, MaxSavingsRows)
    \cup UNION {MonthHistories(n, n) : n \in 0..MaxMonths}

InitSavings ==
    /\ transactions \in {WithIds(rows) : rows \in SavingsSnapshots}
    /\ budgets = <<>>
    /\ selectedMonth = <<2024, 1>>
    /\ zone = "UTC"
    /\ clock = EpochDay(<<2024, 1, 20>>)
    /\ recurring = <<>>
    /\ dueSoon = <<>>
    /\ savings = SavingsRate(<<>>)
    /\ progress = <<>>
    /\ view = "none"
    /\ ServicesIdle

\* SavingsRate({ transactions })
RenderSavingsRate ==
    /\ view = "none"
    /\ savings' = SavingsRate(transactions)
    /\ view' = "savings"
    /\ UNCHANGED <<transactions, budgets, selectedMonth, zone, clock, recurring, dueSoon, progress, serviceVars>>

NextSavings == RenderSavingsRate

SpecSavings == InitSavings /\ [][NextSavings]_vars

(***************************************************************************)
(* Specification of the budget-progress view                               *)
(***************************************************************************)
MaxBudgetRows == 3

BudgetRows ==
    {Transaction(<<2024, 1, 5>>, <<"x">>, 5000, "food", FALSE),
     Transaction(<<2024, 1, 5>>, <<"x">>, 10000, "food", FALSE),
     Transaction(<<2024, 2, 5>>, <<"x">>, 5000, "food", FALSE),
     Transaction(<<2024, 1, 5>>, <<"x">>, 7000, "food", TRUE),
     Transaction(<<2024, 1, 5>>, <<"x">>, 5000, "rent", FALSE),
     Transaction(<<2024, 2, 5>>, <<"x">>, 10000, "rent", FALSE)}

Budget(id, category, amount_limit) ==
    [id |-> id, category |-> category, amount_limit |-> amount_limit]

\* The budget lists in the order of fetchBudgets, .order('category'); a
\* limit of 0 is one that setBudget has added before the server answers.
BudgetLists ==
    {<<>>}
    \cup {<<Budget(1, c, l)>> : c \in {"food", "rent"}, l \in {0, 10000}}
    \cup {<<Budget(1, "food", l1), Budget(2, "rent", l2)>> :
              l1 \in {0, 10000}, l2 \in {0, 10000}}

InitBudget ==
    /\ transactions \in {WithIds(rows) : rows \in RowLists(BudgetRows, MaxBudgetRows)}
    /\ budgets \in BudgetLists
    /\ selectedMonth \in {<<2024, 1>>, <<2024, 2>>}
    /\ zone = "UTC"
    /\ clock = EpochDay(<<2024, 1, 20>>)
    /\ recurring = <<>>
    /\ dueSoon = <<>>
    /\ savings = SavingsRate(<<>>)
    /\ progress = <<>>
    /\ view = "none"
    /\ ServicesIdle

\* Summary({ transactions, budgets, selectedMonth, ... })
RenderSummary ==
    /\ view = "none"
    /\ progress' = BudgetProgress(transactions, budgets, selectedMonth)
    /\ view' = "summary"
    /\ UNCHANGED <<transactions, budgets, selectedMonth, zone, clock, recurring, dueSoon, savings, serviceVars>>

NextBudget == RenderSummary

SpecBudget == InitBudget /\ [][NextBudget]_vars

(***************************************************************************)
(* POST /api/import (src/src/app/api/import/route.ts)                      *)
(***************************************************************************)
MaxDescriptionLength == 500

MaxNotesLength == 1000

DecimalDigits == <<"0", "1", "2", "3", "4", "5", "6", "7", "8", "9">>

IsDigit(c) == \E i \in DOMAIN DecimalDigits : DecimalDigits[i] = c

DigitValue(c) == (CHOOSE i \in DOMAIN DecimalDigits : DecimalDigits[i] = c) - 1

\* The value of a sequence of digits
RECURSIVE DigitsValue(_)
DigitsValue(digits) ==
    IF digits = <<>> THEN 0
    ELSE 10 * DigitsValue(SubSeq(digits, 1, Len(digits) - 1)) + DigitValue(digits[Len(digits)])

\* Number(string) for the decimal literals of at most two decimals, the
\* empty string and Infinity; anything else is NaN.
StringToNumber(str) ==
    LET text     == TrimEnd(TrimStart(str))
        signed   == text # <<>> /\ text[1] \in {"-", "+"}
        body     == IF signed THEN Tail(text) ELSE text
        negative == signed /\ text[1] = "-"
        dots     == {i \in DOMAIN body : body[i] = "."}
        whole    == IF dots = {} THEN body ELSE SubSeq(body, 1, (CHOOSE i \in dots : TRUE) - 1)
        fraction == IF dots = {} THEN <<>>
                    ELSE SubSeq(body, (CHOOSE i \in dots : TRUE) + 1, Len(body))
        padded   == fraction \o SubSeq(<<"0", "0">>, 1, 2 - Len(fraction))
        cents    == 100 * DigitsValue(whole) + DigitsValue(padded)
    IN  IF text = <<>> THEN JsNumber(0)
        ELSE IF body = <<"I", "n", "f", "i", "n", "i", "t", "y">>
        THEN (IF negative THEN JsNegativeInfinity ELSE JsInfinity)
        ELSE IF /\ Cardinality(dots) <= 1
                /\ Len(whole) + Len(fraction) >= 1
                /\ Len(fraction) <= 2
                /\ \A i \in DOMAIN body : IsDigit(body[i]) \/ body[i] = "."
        THEN JsNumber(IF negative THEN -cents ELSE cents)
        ELSE JsNaN

\* Number(value)
ToNumber(value) ==
    CASE value.type = "number"    -> value
      [] value.type = "string"    -> StringToNumber(value.str)
      [] value.type = "null"      -> JsNumber(0)
      [] value.type = "undefined" -> JsNaN
      [] value.type = "boolean"   -> JsNumber(IF value.kind = "true" THEN 100 ELSE 0)

\* value || fallback
OrElse(value, fallback) ==
    LET falsy == \/ value.type \in {"undefined", "null"}
                 \/ value.type = "string" /\ value.str = <<>>
                 \/ value.type = "boolean" /\ value.kind # "true"
                 \/ value.type = "number" /\ value.kind = "nan"
                 \/ value.type = "number" /\ value.kind = "finite" /\ value.num = 0
    IN  IF falsy THEN fallback ELSE value

\* Math.abs(value) of a number
MathAbs(value) ==
    CASE value.kind = "finite" -> JsNumber(IF value.num < 0 THEN -value.num ELSE value.num)
      [] value.kind = "nan"    -> JsNaN
      [] OTHER                 -> JsInfinity

\* String(value) of undefined, null and strings
StringOf(value) ==
    CASE value.type = "string"    -> value.str
      [] value.type = "undefined" -> <<"u", "n", "d", "e", "f", "i", "n", "e", "d">>
      [] value.type = "null"      -> <<"n", "u", "l", "l">>

\* str.slice(0, n)
SliceTo(str, n) == SubSeq(str, 1, IF Len(str) < n THEN Len(str) ELSE n)

\* JSON.stringify of a number, read back by the client: a number that is
\* not finite is written as null.
JsonNumber(value) == IF value.kind = "finite" THEN value ELSE JsNull

\* Boolean(value)
ToBoolean(value) == OrElse(value, JsNull) # JsNull

\* array.includes(str)
Includes(array, str) == \E i \in DOMAIN array : array[i] = str

validCategories ==
    << <<"t", "a", "k", "e", "o", "u", "t">>,
       <<"r", "e", "s", "t", "a", "u", "r", "a", "n", "t", "s">>,
       <<"c", "o", "f", "f", "e", "e">>,
       <<"t", "r", "a", "n", "s", "p", "o", "r", "t">>,
       <<"r", "e", "n", "t">>,
       <<"g", "r", "o", "c", "e", "r", "i", "e", "s">>,
       <<"c", "l", "o", "t", "h", "i", "n", "g">>,
       <<"b", "e", "a", "u", "t", "y">>,
       <<"g", "i", "f", "t", "s">>,
       <<"s", "u", "b", "s", "c", "r", "i", "p", "t", "i", "o", "n", "s">>,
       <<"e", "n", "t", "e", "r", "t", "a", "i", "n", "m", "e", "n", "t">>,
       <<"e", "l", "e", "c", "t", "r", "o", "n", "i", "c", "s">>,
       <<"h", "o", "m", "e", "_", "g", "o", "o", "d", "s">>,
       <<"u", "t", "i", "l", "i", "t", "i", "e", "s">>,
       <<"o", "t", "h", "e", "r">> >>

validPaymentMethods ==
    << <<"c", "a", "s", "h">>,
       <<"d", "e", "b", "i", "t", "_", "c", "a", "r", "d">>,
       <<"c", "r", "e", "d", "i", "t", "_", "c", "a", "r", "d">>,
       <<"b", "i", "z", "u", "m">>,
       <<"b", "a", "n", "k", "_", "t", "r", "a", "n", "s", "f", "e", "r">>,
       <<"r", "e", "v", "o", "l", "u", "t">>,
       <<"o", "t", "h", "e", "r">> >>

validExpenseTypes ==
    << <<"s", "h", "a", "r", "e", "d">>,
       <<"p", "e", "r", "s", "o", "n", "a", "l">> >>

\* n as a string of `width` digits
RECURSIVE PadDigits(_, _)
PadDigits(n, width) ==
    IF width = 0 THEN <<>>
    ELSE Append(PadDigits(n \div 10, width - 1), DecimalDigits[(n % 10) + 1])

\* new Date().toISOString().split('T')[0] on the epoch day `now`
IsoDate(now) ==
    LET d == DateOfEpochDay(now)
    IN  PadDigits(d[1], 4) \o <<"-">> \o PadDigits(d[2], 2) \o <<"-">> \o PadDigits(d[3], 2)

\* A record of the array the AI model returned
RawTransaction(date, description, amount, category, expense_type, payment_method, is_income, notes) ==
    [date |-> date, description |-> description, amount |-> amount, category |-> category,
     expense_type |-> expense_type, payment_method |-> payment_method,
     is_income |-> is_income, notes |-> notes]

\* The callback of parsed.transactions.map: one record, validated
ValidateTransaction(t, now) ==
    [date           |-> SliceTo(StringOf(OrElse(t.date, JsString(IsoDate(now)))), 10),
     description    |-> SliceTo(StringOf(OrElse(t.description,
                                                JsString(<<"U", "n", "k", "n", "o", "w", "n">>))),
                                MaxDescriptionLength),
     amount         |-> JsonNumber(MathAbs(OrElse(ToNumber(t.amount), JsNumber(0)))),
     category       |-> IF Includes(validCategories, StringOf(t.category))
                        THEN StringOf(t.category) ELSE <<"o", "t", "h", "e", "r">>,
     expense_type   |-> IF Includes(validExpenseTypes, StringOf(t.expense_type))
                        THEN StringOf(t.expense_type) ELSE <<"s", "h", "a", "r", "e", "d">>,
     payment_method |-> IF Includes(validPaymentMethods, StringOf(t.payment_method))
                        THEN StringOf(t.payment_method) ELSE <<"o", "t", "h", "e", "r">>,
     is_income      |-> ToBoolean(t.is_income),
     notes          |-> SliceTo(StringOf(OrElse(t.notes, JsString(<<>>))), MaxNotesLength)]

\* A request to the route: whether a user is signed in, whether the API key
\* is set, the uploaded file, and what the AI model answers: text that is
\* not JSON ("invalid"), JSON without an array of transactions ("empty"),
\* an array holding null ("nullRow") or an array of records ("rows").
ImportRequest(user, apiKey, file, reply, rows) ==
    [user |-> user, apiKey |-> apiKey, file |-> file, reply |-> reply, rows |-> rows]

ImportResponse(status, rows) == [status |-> status, transactions |-> rows]

\* POST(request)
POST(request, now) ==
    IF ~request.user THEN ImportResponse(401, <<>>)
    ELSE IF ~request.apiKey THEN ImportResponse(503, <<>>)
    ELSE IF request.file \in {"none", "tooLarge", "unsupported", "csvTooLong"}
    THEN ImportResponse(400, <<>>)
    ELSE IF request.reply \in {"invalid", "nullRow"} THEN ImportResponse(500, <<>>)
    ELSE IF request.reply = "empty" THEN ImportResponse(422, <<>>)
    ELSE ImportResponse(200, [i \in DOMAIN request.rows |->
                                 ValidateTransaction(request.rows[i], now)])

\* The route answers the request.
PostImport ==
    /\ importRequest # JsNull
    /\ importResponse = JsNull
    /\ importResponse' = POST(importRequest, clock)
    /\ UNCHANGED <<pageVars, budgets, hookVars, householdVars, clientVars, importRequest>>

MaxImportRows == 1

\* A string of n characters
LongString(n) == [i \in 1..n |-> "x"]

\* What the AI model may return for a record: fields that are missing,
\* valid, of the wrong kind, out of range or too long
RawTransactions ==
    LET AnyDate == {JsUndefined, JsString(<<"2", "0", "2", "5", "-", "0", "1", "-", "1", "5">>)}
        AnyDescription ==
            {JsUndefined, JsString(<<>>),
             JsString(<<"M", "e", "r", "c", "a", "d", "o", "n", "a">>),
             JsString(LongString(MaxDescriptionLength)),
             JsString(LongString(MaxDescriptionLength + 1))}
        AnyAmount ==
            {JsNumber(4567), JsNumber(-4567), JsNumber(0), JsInfinity,
             JsString(<<"1", "2", ".", "5">>), JsString(<<"-", "3">>),
             JsString(<<"4", "5", ",", "6", "7">>),
             JsString(<<"-", "I", "n", "f", "i", "n", "i", "t", "y">>),
             JsUndefined, JsNull}
        AnyCategory ==
            {JsUndefined, JsString(<<"g", "r", "o", "c", "e", "r", "i", "e", "s">>),
             JsString(<<"G", "r", "o", "c", "e", "r", "i", "e", "s">>)}
        AnyExpenseType ==
            {JsUndefined, JsString(<<"p", "e", "r", "s", "o", "n", "a", "l">>),
             JsString(<<"j", "o", "i", "n", "t">>)}
        AnyPaymentMethod ==
            {JsNull, JsString(<<"b", "i", "z", "u", "m">>),
             JsString(<<"p", "a", "y", "p", "a", "l">>)}
        AnyIsIncome == {JsUndefined, JsValue("boolean", "true", 0, <<>>)}
        AnyNotes ==
            {JsUndefined, JsString(LongString(MaxNotesLength)),
             JsString(LongString(MaxNotesLength + 1))}
    IN  {RawTransaction(date, description, amount, category, expense_type, payment_method,
                        is_income, notes) :
            date \in AnyDate, description \in AnyDescription, amount \in AnyAmount,
            category \in AnyCategory, expense_type \in AnyExpenseType,
            payment_method \in AnyPaymentMethod, is_income \in AnyIsIncome,
            notes \in AnyNotes}

\* The rows of a reply: up to MaxImportRows records
RawRows == UNION {[1..n -> RawTransactions] : n \in 0..MaxImportRows}

ImportRequests ==
    {ImportRequest(user, apiKey, file, reply, <<>>) :
        user \in BOOLEAN, apiKey \in BOOLEAN,
        file \in {"none", "tooLarge", "unsupported", "csvTooLong", "ok"},
        reply \in {"invalid", "nullRow", "empty"}}
    \cup {ImportRequest(TRUE, TRUE, "ok", "rows", rows) : rows \in RawRows}

InitImport ==
    /\ PageIdle
    /\ budgets = <<>>
    /\ HookIdle
    /\ HouseholdIdle
    /\ ClientsIdle
    /\ importRequest \in ImportRequests
    /\ importResponse = JsNull

NextImport == PostImport

SpecImport == InitImport /\ [][NextImport]_vars

(***************************************************************************)
(* useBudgets (src/unnamed/part_001) and public.budgets                    *)
(***************************************************************************)
MaxBudgetCalls == 3

BudgetCategories == <<"food", "rent">>

CategoryRank(category) ==
    CHOOSE i \in DOMAIN BudgetCategories : BudgetCategories[i] = category

\* a.category.localeCompare(b.category), and the order of .order('category')
ByCategory(a, b) == Sign(CategoryRank(a.category) - CategoryRank(b.category))

SortByCategory(list) ==
    ArraySort(list, [p \in (DOMAIN list) \X (DOMAIN list) |-> ByCategory(list[p[1]], list[p[2]])])

\* select('*').order('category') on a table with one row per category
RECURSIVE SelectBudgets(_)
SelectBudgets(rows) ==
    IF rows = {} THEN <<>>
    ELSE LET first == CHOOSE b \in rows : \A c \in rows : ByCategory(b, c) <= 0
         IN  <<first>> \o SelectBudgets(rows \ {first})

\* A request of the hook: `id` is the row an update or a delete names, or
\* the temporary id of an insert; `prev` is the list a failure restores.
BudgetRequest(kind, id, category, amount, prev) ==
    [kind |-> kind, id |-> id, category |-> category, amount |-> amount, prev |-> prev,
     status |-> "sent", error |-> FALSE, data |-> <<>>]

\* The refetch of the realtime handler, run on every change of the table
Refetch == BudgetRequest("select", 0, "", 0, <<>>)

\* check (amount_limit > 0 ...) and unique (household_id, category)
InsertFails(rows, category, amount) ==
    \/ amount <= 0
    \/ \E b \in rows : b.category = category

\* The check constraint is evaluated on the rows the update matches.
UpdateFails(rows, id, amount) ==
    /\ \E b \in rows : b.id = id
    /\ amount <= 0

\* budgets.find(b => b.category === category)
FindBudget(list, category) ==
    LET hits == SelectSeq(list, LAMBDA b : b.category = category)
    IN  IF hits = <<>> THEN None ELSE Some(hits[1])

\* setBudget(category, amountLimit)
SetBudget ==
    /\ budgetCalls < MaxBudgetCalls
    /\ \E category \in {"food", "rent"}, amountLimit \in {0, 7000} :
           LET existing == FindBudget(handlerBudgets, category)
           IN  IF existing.some
               THEN /\ budgets' = [i \in DOMAIN handlerBudgets |->
                                      IF handlerBudgets[i].id = existing.val.id
                                      THEN [handlerBudgets[i] EXCEPT !.amount_limit = amountLimit]
                                      ELSE handlerBudgets[i]]
                    /\ budgetRequests' = budgetRequests \cup
                           {BudgetRequest("update", existing.val.id, category, amountLimit,
                                          handlerBudgets)}
                    /\ UNCHANGED nextBudgetId
               ELSE /\ budgets' = SortByCategory(
                                      Append(budgets, Budget(nextBudgetId, category, amountLimit)))
                    /\ budgetRequests' = budgetRequests \cup
                           {BudgetRequest("insert", nextBudgetId, category, amountLimit, <<>>)}
                    /\ nextBudgetId' = nextBudgetId + 1
    /\ budgetCalls' = budgetCalls + 1
    /\ UNCHANGED <<outsideHook, dbBudgets, handlerBudgets>>

\* removeBudget(budgetId), with the id of a budget the page shows
RemoveBudget ==
    /\ budgetCalls < MaxBudgetCalls
    /\ \E i \in DOMAIN handlerBudgets :
           /\ budgets' = SelectSeq(handlerBudgets, LAMBDA b : b.id # handlerBudgets[i].id)
           /\ budgetRequests' = budgetRequests \cup
                  {BudgetRequest("delete", handlerBudgets[i].id, handlerBudgets[i].category, 0,
                                 handlerBudgets)}
    /\ budgetCalls' = budgetCalls + 1
    /\ UNCHANGED <<outsideHook, dbBudgets, handlerBudgets, nextBudgetId>>

\* The component renders again: its handlers close over the current list.
RenderBudgets ==
    /\ handlerBudgets # budgets
    /\ handlerBudgets' = budgets
    /\ UNCHANGED <<outsideHook, budgets, dbBudgets, budgetRequests, nextBudgetId, budgetCalls>>

\* The database runs a request of the hook and answers it; a change of the
\* table reaches the realtime handler, which sends its refetch.
DatabaseRunsBudgetRequest ==
    \E req \in budgetRequests :
        /\ req.status = "sent"
        /\ LET rest     == budgetRequests \ {req}
               answered == [req EXCEPT !.status = "answered"]
               failed   == [answered EXCEPT !.error = TRUE]
               matched  == \E b \in dbBudgets : b.id = req.id
           IN  CASE req.kind = "insert" ->
                      IF InsertFails(dbBudgets, req.category, req.amount)
                      THEN /\ budgetRequests' = rest \cup {failed}
                           /\ UNCHANGED <<dbBudgets, nextBudgetId>>
                      ELSE LET row == Budget(nextBudgetId, req.category, req.amount)
                           IN  /\ dbBudgets' = dbBudgets \cup {row}
                               /\ nextBudgetId' = nextBudgetId + 1
                               /\ budgetRequests' =
                                      rest \cup {[answered EXCEPT !.data = <<row>>], Refetch}
                 [] req.kind = "update" ->
                      IF UpdateFails(dbBudgets, req.id, req.amount)
                      THEN /\ budgetRequests' = rest \cup {failed}
                           /\ UNCHANGED <<dbBudgets, nextBudgetId>>
                      ELSE /\ dbBudgets' = {IF b.id = req.id
                                            THEN [b EXCEPT !.amount_limit = req.amount]
                                            ELSE b : b \in dbBudgets}
                           /\ budgetRequests' =
                                  rest \cup {answered} \cup (IF matched THEN {Refetch} ELSE {})
                           /\ UNCHANGED nextBudgetId
                 [] req.kind = "delete" ->
                      /\ dbBudgets' = {b \in dbBudgets : b.id # req.id}
                      /\ budgetRequests' =
                             rest \cup {answered} \cup (IF matched THEN {Refetch} ELSE {})
                      /\ UNCHANGED nextBudgetId
                 [] req.kind = "select" ->
                      /\ budgetRequests' =
                             rest \cup {[answered EXCEPT !.data = SelectBudgets(dbBudgets)]}
                      /\ UNCHANGED <<dbBudgets, nextBudgetId>>
        /\ UNCHANGED <<outsideHook, budgets, handlerBudgets, budgetCalls>>

\* The answer of a request arrives: the code after its `await` runs.
ResolveBudgetRequest ==
    \E req \in budgetRequests :
        /\ req.status = "answered"
        /\ budgetRequests' = budgetRequests \ {req}
        /\ budgets' =
               CASE req.kind = "insert" ->
                      IF req.error
                      THEN SelectSeq(budgets, LAMBDA b : b.id # req.id)
                      ELSE [i \in DOMAIN budgets |->
                               IF budgets[i].id = req.id THEN req.data[1] ELSE budgets[i]]
                 [] req.kind \in {"update", "delete"} ->
                      IF req.error THEN req.prev ELSE budgets
                 [] req.kind = "select" -> req.data
        /\ UNCHANGED <<outsideHook, dbBudgets, handlerBudgets, nextBudgetId, budgetCalls>>

\* The household has a budget for rent, fetched by the hook.
InitBudgetHook ==
    /\ PageIdle
    /\ ImportIdle
    /\ HouseholdIdle
    /\ ClientsIdle
    /\ dbBudgets = {Budget(1, "rent", 5000)}
    /\ budgets = SelectBudgets(dbBudgets)
    /\ handlerBudgets = budgets
    /\ budgetRequests = {}
    /\ nextBudgetId = 2
    /\ budgetCalls = 0

NextBudgetHook ==
    \/ SetBudget
    \/ RemoveBudget
    \/ RenderBudgets
    \/ DatabaseRunsBudgetRequest
    \/ ResolveBudgetRequest

SpecBudgetHook == InitBudgetHook /\ [][NextBudgetHook]_vars

(***************************************************************************)
(* Households, members and invites (src/supabase/schema.sql,               *)
(* src/supabase/rls-policies.sql, src/src/hooks/useHousehold.ts)           *)
(*                                                                         *)
(* Every call of a database function is a transaction at the default       *)
(* isolation level (read committed): each statement sees what is committed *)
(* when it starts.  A call is two steps where other transactions can       *)
(* commit between its statements: its checks, and then its locking read    *)
(* and its writes, which become visible together at its commit.  A         *)
(* statement that finds its row locked waits for the commit and sees the   *)
(* committed row, as the second step does.                                 *)
(***************************************************************************)
\* What the actions of the households leave alone
outsideHousehold == <<pageVars, budgets, hookVars, importVars, clientVars>>

MaxRpcCalls == 4

Users == {"ana", "ben", "cy"}

\* lower(trim(text))
LowerTrim(text) ==
    LET trimmed == TrimEnd(TrimStart(text))
    IN  [i \in DOMAIN trimmed |-> ToLowerChar(trimmed[i])]

\* encode(gen_random_bytes(6), 'hex'): a code that no row has had
InviteCode(n) == <<"b">> \o PadDigits(n, 2)

\* The code as a user types it: in capitals, with a blank before it
Typed(code) == <<" ", "B">> \o Tail(code)

Household(id, max_members) == [id |-> id, max_members |-> max_members]

Member(household_id, user_id, role) ==
    [household_id |-> household_id, user_id |-> user_id, role |-> role]

\* A row of public.invites; "" stands for null
Invite(id, household_id, seat_number, invite_code, invited_email, status, used_by) ==
    [id |-> id, household_id |-> household_id, seat_number |-> seat_number,
     invite_code |-> invite_code, invited_email |-> invited_email, status |-> status,
     used_by |-> used_by]

\* A call after its checks: its number and the arguments it goes on with
RpcCall(call, kind, caller, seat_count, name, code, invite_id, email) ==
    [call |-> call, kind |-> kind, caller |-> caller, seat_count |-> seat_count,
     name |-> name, code |-> code, invite_id |-> invite_id, email |-> email]

\* The answer to the call of that number
Reply(call, caller, kind, error) ==
    [call |-> call, caller |-> caller, kind |-> kind, error |-> error]

\* exists (select 1 from public.household_members where user_id = auth.uid())
HasMembership(rows, user) == \E m \in rows : m.user_id = user

\* exists (select 1 from public.household_members where household_id = ... and
\* user_id = auth.uid() and role = 'owner')
IsOwner(rows, user, household_id) == Member(household_id, user, "owner") \in rows

\* auth.users.email of a user
EmailOf(user) == user

\* The invites a user's hook fetches: those of a household of the user
FetchInvites(user) ==
    {[id |-> inv.id, status |-> inv.status] :
        inv \in {i \in inviteRows :
                    \E m \in members : m.user_id = user /\ m.household_id = i.household_id}}

DisplayNames == {<<" ">>, <<"B", "o">>}

\* create_household_with_seats: the validation
CallCreateHousehold ==
    /\ rpcCount < MaxRpcCalls
    /\ rpcCount' = rpcCount + 1
    /\ \E user \in Users, seat_count \in {0, 1, 2}, name \in DisplayNames :
           IF seat_count < 1 \/ seat_count > 10
           THEN /\ rpcReply' = Reply(rpcCount + 1, user, "create",
                                     "Seat count must be between 1 and 10")
                /\ UNCHANGED rpcCalls
           ELSE IF HasMembership(members, user)
           THEN /\ rpcReply' = Reply(rpcCount + 1, user, "create",
                                     "You already belong to a household")
                /\ UNCHANGED rpcCalls
           ELSE /\ rpcCalls' = rpcCalls \cup
                       {RpcCall(rpcCount + 1, "create", user, seat_count, name, <<>>, 0, "")}
                /\ UNCHANGED rpcReply
    /\ UNCHANGED <<outsideHousehold, households, members, inviteRows, panelInvites, seatJoins,
                   nextRowId>>

\* create_household_with_seats: the inserts and the commit
CommitCreateHousehold ==
    \E call \in rpcCalls :
        /\ call.kind = "create"
        /\ rpcCalls' = rpcCalls \ {call}
        /\ IF LowerTrim(call.name) = <<>>
           THEN /\ rpcReply' = Reply(call.call, call.caller, "create", "violates check constraint")
                /\ UNCHANGED <<households, members, inviteRows, nextRowId>>
           ELSE /\ households' = households \cup {Household(nextRowId, call.seat_count)}
                /\ members' = members \cup {Member(nextRowId, call.caller, "owner")}
                /\ inviteRows' = inviteRows \cup
                       {Invite(nextRowId + i - 1, nextRowId, i, InviteCode(nextRowId + i - 1),
                               "", "pending", "") : i \in 2..call.seat_count}
                /\ nextRowId' = nextRowId + call.seat_count
                /\ rpcReply' = Reply(call.call, call.caller, "create", "")
        /\ UNCHANGED <<outsideHousehold, panelInvites, seatJoins, rpcCount>>

\* join_household_by_invite: the validation
CallJoinHousehold ==
    /\ rpcCount < MaxRpcCalls
    /\ rpcCount' = rpcCount + 1
    /\ \E user \in Users, name \in DisplayNames,
          code \in {<<" ">>} \cup {Typed(inv.invite_code) : inv \in inviteRows} :
           IF LowerTrim(name) = <<>>
           THEN /\ rpcReply' = Reply(rpcCount + 1, user, "join", "Display name is required")
                /\ UNCHANGED rpcCalls
           ELSE IF LowerTrim(code) = <<>>
           THEN /\ rpcReply' = Reply(rpcCount + 1, user, "join", "Invite code is required")
                /\ UNCHANGED rpcCalls
           ELSE IF HasMembership(members, user)
           THEN /\ rpcReply' = Reply(rpcCount + 1, user, "join",
                                     "You already belong to a household")
                /\ UNCHANGED rpcCalls
           ELSE /\ rpcCalls' = rpcCalls \cup
                       {RpcCall(rpcCount + 1, "join", user, 0, name, code, 0, "")}
                /\ UNCHANGED rpcReply
    /\ UNCHANGED <<outsideHousehold, households, members, inviteRows, panelInvites, seatJoins,
                   nextRowId>>

\* Variant: the invite is read without `for update` and without the
\* condition on its status, so a call that waited goes on with a used invite.
CommitJoinHousehold_WithoutLock ==
    \E call \in rpcCalls :
        /\ call.kind = "join"
        /\ rpcCalls' = rpcCalls \ {call}
        /\ LET found == {inv \in inviteRows : inv.invite_code = LowerTrim(call.code)}
           IN  IF found = {}
               THEN /\ rpcReply' = Reply(call.call, call.caller, "join",
                                         "Invalid or expired invite code")
                    /\ UNCHANGED <<members, inviteRows, seatJoins>>
               ELSE LET target_invite == CHOOSE inv \in found : TRUE
                    IN  IF /\ target_invite.invited_email # ""
                           /\ EmailOf(call.caller) # target_invite.invited_email
                        THEN /\ rpcReply' = Reply(call.call, call.caller, "join",
                                     "This invite is reserved for a different email address")
                             /\ UNCHANGED <<members, inviteRows, seatJoins>>
                        ELSE IF \E m \in members :
                                    /\ m.household_id = target_invite.household_id
                                    /\ m.user_id = call.caller
                        THEN /\ rpcReply' = Reply(call.call, call.caller, "join",
                                                  "violates unique constraint")
                             /\ UNCHANGED <<members, inviteRows, seatJoins>>
                        ELSE /\ inviteRows' = (inviteRows \ {target_invite}) \cup
                                    {[target_invite EXCEPT !.status = "used",
                                                           !.used_by = call.caller]}
                             /\ members' = members \cup
                                    {Member(target_invite.household_id, call.caller, "member")}
                             /\ seatJoins' = seatJoins \cup
                                    {<<target_invite.id, call.caller, target_invite.invite_code>>}
                             /\ rpcReply' = Reply(call.call, call.caller, "join", "")
        /\ UNCHANGED <<outsideHousehold, households, panelInvites, nextRowId, rpcCount>>

\* join_household_by_invite: the locking read of the invite, the update,
\* the insert and the commit
CommitJoinHousehold ==
    \E call \in rpcCalls :
        /\ call.kind = "join"
        /\ rpcCalls' = rpcCalls \ {call}
        /\ LET found == {inv \in inviteRows : /\ inv.invite_code = LowerTrim(call.code)
                                              /\ inv.status = "pending"}
           IN  IF found = {}
               THEN /\ rpcReply' = Reply(call.call, call.caller, "join",
                                         "Invalid or expired invite code")
                    /\ UNCHANGED <<members, inviteRows, seatJoins>>
               ELSE LET target_invite == CHOOSE inv \in found : TRUE
                    IN  IF /\ target_invite.invited_email # ""
                           /\ EmailOf(call.caller) # target_invite.invited_email
                        THEN /\ rpcReply' = Reply(call.call, call.caller, "join",
                                     "This invite is reserved for a different email address")
                             /\ UNCHANGED <<members, inviteRows, seatJoins>>
                        ELSE IF \E m \in members :
                                    /\ m.household_id = target_invite.household_id
                                    /\ m.user_id = call.caller
                        THEN /\ rpcReply' = Reply(call.call, call.caller, "join",
                                                  "violates unique constraint")
                             /\ UNCHANGED <<members, inviteRows, seatJoins>>
                        ELSE /\ inviteRows' = (inviteRows \ {target_invite}) \cup
                                    {[target_invite EXCEPT !.status = "used",
                                                           !.used_by = call.caller]}
                             /\ members' = members \cup
                                    {Member(target_invite.household_id, call.caller, "member")}
                             /\ seatJoins' = seatJoins \cup
                                    {<<target_invite.id, call.caller, target_invite.invite_code>>}
                             /\ rpcReply' = Reply(call.call, call.caller, "join", "")
        /\ UNCHANGED <<outsideHousehold, households, panelInvites, nextRowId, rpcCount>>

\* The settings panel shows the invites to the owner of their household.
PanelOffers(user, statuses) ==
    {inv \in inviteRows :
        /\ \E p \in panelInvites[user] : p.id = inv.id /\ p.status \in statuses
        /\ IsOwner(members, user, inv.household_id)}

\* regenerateInvite(inviteId), offered for a pending or a revoked invite:
\* regenerate_invite locks the row first, so it is one step.
RegenerateInvite ==
    /\ rpcCount < MaxRpcCalls
    /\ rpcCount' = rpcCount + 1
    /\ \E user \in Users :
        \E target_invite \in PanelOffers(user, {"pending", "revoked"}) :
           IF ~IsOwner(members, user, target_invite.household_id)
           THEN /\ rpcReply' = Reply(rpcCount + 1, user, "regenerate",
                                     "Only the household owner can regenerate invites")
                /\ UNCHANGED <<inviteRows, panelInvites, nextRowId>>
           ELSE IF target_invite.status = "used"
           THEN /\ rpcReply' = Reply(rpcCount + 1, user, "regenerate", "Cannot regenerate a used invite")
                /\ UNCHANGED <<inviteRows, panelInvites, nextRowId>>
           ELSE /\ inviteRows' = (inviteRows \ {target_invite}) \cup
                       {[target_invite EXCEPT !.invite_code = InviteCode(nextRowId),
                                              !.status = "pending"]}
                /\ nextRowId' = nextRowId + 1
                /\ panelInvites' = [panelInvites EXCEPT ![user] =
                       {IF p.id = target_invite.id THEN [p EXCEPT !.status = "pending"] ELSE p :
                           p \in panelInvites[user]}]
                /\ rpcReply' = Reply(rpcCount + 1, user, "regenerate", "")
    /\ UNCHANGED <<outsideHousehold, households, members, rpcCalls, seatJoins>>

\* revokeInvite(inviteId), offered for an invite the panel shows as pending:
\* the local copy is marked first, then the row is updated by its id; the
\* policy "Owner can manage invites" lets the owner's update through.
RevokeInvite ==
    /\ rpcCount < MaxRpcCalls
    /\ rpcCount' = rpcCount + 1
    /\ \E user \in Users :
        \E target_invite \in PanelOffers(user, {"pending"}) :
           /\ panelInvites' = [panelInvites EXCEPT ![user] =
                  {IF p.id = target_invite.id THEN [p EXCEPT !.status = "revoked"] ELSE p :
                      p \in panelInvites[user]}]
           /\ inviteRows' = (inviteRows \ {target_invite}) \cup
                                {[target_invite EXCEPT !.status = "revoked"]}
           /\ rpcReply' = Reply(rpcCount + 1, user, "revoke", "")
    /\ UNCHANGED <<outsideHousehold, households, members, rpcCalls, seatJoins, nextRowId>>

\* updateInviteEmail(inviteId, email), offered for a pending invite:
\* update_invite_email reads the invite without a lock and checks it
CallUpdateInviteEmail ==
    /\ rpcCount < MaxRpcCalls
    /\ rpcCount' = rpcCount + 1
    /\ \E user \in Users, email \in {"", "ben"} :
        \E target_invite \in PanelOffers(user, {"pending"}) :
           IF target_invite.status # "pending"
           THEN /\ rpcReply' = Reply(rpcCount + 1, user, "email", "Can only update pending invites")
                /\ UNCHANGED rpcCalls
           ELSE IF ~IsOwner(members, user, target_invite.household_id)
           THEN /\ rpcReply' = Reply(rpcCount + 1, user, "email",
                                     "Only the household owner can update invites")
                /\ UNCHANGED rpcCalls
           ELSE /\ rpcCalls' = rpcCalls \cup
                       {RpcCall(rpcCount + 1, "email", user, 0, <<>>, <<>>, target_invite.id, email)}
                /\ UNCHANGED rpcReply
    /\ UNCHANGED <<outsideHousehold, households, members, inviteRows, panelInvites, seatJoins,
                   nextRowId>>

\* update_invite_email: the update and the commit; the hook then writes the
\* email into its local copy, which leaves the statuses alone
CommitUpdateInviteEmail ==
    \E call \in rpcCalls :
        /\ call.kind = "email"
        /\ rpcCalls' = rpcCalls \ {call}
        /\ inviteRows' = {IF inv.id = call.invite_id
                          THEN [inv EXCEPT !.invited_email = call.email] ELSE inv :
                             inv \in inviteRows}
        /\ rpcReply' = Reply(call.call, call.caller, "email", "")
        /\ UNCHANGED <<outsideHousehold, households, members, panelInvites, seatJoins,
                       nextRowId, rpcCount>>

\* A change of the invites reaches the realtime handler of a user's hook,
\* which fetches them again.
RefetchInvites ==
    \E user \in Users :
        /\ panelInvites[user] # FetchInvites(user)
        /\ panelInvites' = [panelInvites EXCEPT ![user] = FetchInvites(user)]
        /\ UNCHANGED <<outsideHousehold, households, members, inviteRows, rpcCalls, rpcReply,
                       seatJoins, nextRowId, rpcCount>>

\* Ana owns a household of two seats; the invite of seat 2 is pending.
InitHousehold ==
    /\ PageIdle
    /\ budgets = <<>>
    /\ HookIdle
    /\ ImportIdle
    /\ ClientsIdle
    /\ households = {Household(1, 2)}
    /\ members = {Member(1, "ana", "owner")}
    /\ inviteRows = {Invite(2, 1, 2, InviteCode(2), "", "pending", "")}
    /\ rpcCalls = {}
    /\ rpcReply = NoReply
    /\ panelInvites = [user \in Users |-> FetchInvites(user)]
    /\ seatJoins = {}
    /\ nextRowId = 3
    /\ rpcCount = 0

NextHousehold ==
    \/ CallCreateHousehold
    \/ CommitCreateHousehold
    \/ CallJoinHousehold
    \/ CommitJoinHousehold
    \/ RegenerateInvite
    \/ RevokeInvite
    \/ CallUpdateInviteEmail
    \/ CommitUpdateInviteEmail
    \/ RefetchInvites

SpecHousehold == InitHousehold /\ [][NextHousehold]_vars

(***************************************************************************)
(* Specification of the order of the input: the same rows handed to        *)
(* detectRecurring in every order.  Two subscriptions cost the same per    *)
(* month, and a weekly subscription was paid twice on its last day.        *)
(***************************************************************************)
MaxOrderRows == 4

OrderRows ==
    {Transaction(date, description, 1000, "subscriptions", FALSE) :
        date \in {<<2024, 1, 1>>, <<2024, 1, 27>>}, description \in {DescHBO, DescGym}}

\* Seven weekly payments of 10.00 and a second payment, of 12.00, on the
\* day of the last one
WeeklyWithTie ==
    [i \in 1..7 |-> Transaction(DateOfEpochDay(EpochDay(<<2024, 1, 1>>) + 7 * (i - 1)),
                                DescHBO, 1000, "subscriptions", FALSE)]

PaidTwice == Transaction(<<2024, 2, 12>>, DescHboPadded, 1200, "leisure", FALSE)

InitOrder ==
    /\ transactions \in
           {WithIds(rows) : rows \in RowLists(OrderRows, MaxOrderRows)
                                        \cup {Append(WeeklyWithTie, PaidTwice),
                                              <<PaidTwice>> \o WeeklyWithTie}}
    /\ budgets = <<>>
    /\ selectedMonth = <<2024, 1>>
    /\ zone = "UTC"
    /\ clock = EpochDay(<<2024, 1, 20>>)
    /\ recurring = <<>>
    /\ dueSoon = <<>>
    /\ savings = SavingsRate(<<>>)
    /\ progress = <<>>
    /\ view = "none"
    /\ ServicesIdle

NextOrder == RenderRecurringExpenses

SpecOrder == InitOrder /\ [][NextOrder]_vars

(***************************************************************************)
(* useTransactions: the local list, the table public.transactions and the  *)
(* realtime channel of the household.  A call of the hook changes the      *)
(* local list at once and sends a request; the database runs the request   *)
(* and queues a realtime event for every row it changed; the answer and    *)
(* the events reach the client in any order.  updateTransaction,           *)
(* deleteTransaction and bulkUpdateTransactions read the `transactions`    *)
(* of the render they were created in.                                     *)
(***************************************************************************)
MaxTxCalls == 2

TxRow(id, date, amount) ==
    [id |-> id] @@ Transaction(date, DescHBO, amount, "subscriptions", FALSE)

\* (a, b) => b.date.localeCompare(a.date)
ByDateDescending(a, b) == LocaleCompare(b.date, a.date)

SortByDate(list) ==
    ArraySort(list, [p \in (DOMAIN list) \X (DOMAIN list) |->
                        ByDateDescending(list[p[1]], list[p[2]])])

\* select('*').order('date', { ascending: false }): the rows by date
\* descending, rows of one date in any order
RECURSIVE SelectTransactions(_)
SelectTransactions(rows) ==
    IF rows = {} THEN {<<>>}
    ELSE UNION {{<<first>> \o others : others \in SelectTransactions(rows \ {first})} :
                   first \in {r \in rows :
                                 \A other \in rows : ByDateDescending(r, other) <= 0}}

\* The fields an update names; a field outside `fields` is left as it is.
Updates(fields, date, amount) == [fields |-> fields, date |-> date, amount |-> amount]

NoUpdates == Updates({}, <<2024, 1, 1>>, 0)

\* { ...t, ...updates }
Merge(t, updates) ==
    [t EXCEPT !.date = IF "date" \in updates.fields THEN updates.date ELSE @,
              !.amount = IF "amount" \in updates.fields THEN updates.amount ELSE @]

\* A request of the hook: `ids` are the rows an update or a delete names,
\* `row` is the optimistic row of an insert, `prev` is the list a failure
\* restores.
TxRequest(kind, ids, row, updates, prev) ==
    [kind |-> kind, ids |-> ids, row |-> row, updates |-> updates, prev |-> prev,
     status |-> "sent", error |-> FALSE, data |-> <<>>]

NoRow == TxRow(0, <<2024, 1, 1>>, 0)

\* A postgres_changes event: payload.new, or payload.old of a DELETE
TxEvent(eventType, row) == [eventType |-> eventType, row |-> row]

\* check (amount >= 0 and amount < 100000000)
AmountCheckFails(row) == row.amount < 0 \/ row.amount \div 100 >= 100000000

\* The events of the rows of a statement, one per row
RECURSIVE EventsOf(_, _)
EventsOf(eventType, rows) ==
    IF rows = {} THEN <<>>
    ELSE LET first == CHOOSE r \in rows : \A other \in rows : r.id <= other.id
         IN  <<TxEvent(eventType, first)>> \o EventsOf(eventType, rows \ {first})

TxDates == {<<2024, 1, 1>>, <<2024, 1, 15>>}

\* fetchTransactions()
FetchTransactions ==
    /\ txCalls < MaxTxCalls
    /\ txRequests' = txRequests \cup {TxRequest("select", {}, NoRow, NoUpdates, <<>>)}
    /\ txCalls' = txCalls + 1
    /\ UNCHANGED <<budgets, selectedMonth, zone, clock, recurring, dueSoon, savings,
                   progress, view, hookVars, importVars, householdVars, sessionVars,
                   wizardVars, transactions, dbTransactions, handlerTransactions,
                   txEvents, nextTxId>>

\* addTransaction(txn)
AddTransaction ==
    /\ txCalls < MaxTxCalls
    /\ \E date \in TxDates :
           LET tempId     == nextTxId
               optimistic == TxRow(tempId, date, 1000)
           IN  /\ transactions' = SortByDate(<<optimistic>> \o transactions)
               /\ txRequests' = txRequests \cup
                      {TxRequest("insert", {tempId}, optimistic, NoUpdates, <<>>)}
    /\ nextTxId' = nextTxId + 1
    /\ txCalls' = txCalls + 1
    /\ UNCHANGED <<budgets, selectedMonth, zone, clock, recurring, dueSoon, savings,
                   progress, view, hookVars, importVars, householdVars, sessionVars,
                   wizardVars, dbTransactions, handlerTransactions, txEvents>>

\* updateTransaction(id, updates), with the id of a row the page shows
UpdateTransaction ==
    /\ txCalls < MaxTxCalls
    /\ \E i \in DOMAIN handlerTransactions,
          updates \in {Updates({"date"}, date, 0) : date \in TxDates}
                          \cup {Updates({"amount"}, <<2024, 1, 1>>, -100)} :
           LET id   == handlerTransactions[i].id
               prev == handlerTransactions
           IN  /\ transactions' = [j \in DOMAIN handlerTransactions |->
                                      IF handlerTransactions[j].id = id
                                      THEN Merge(handlerTransactions[j], updates)
                                      ELSE handlerTransactions[j]]
               /\ txRequests' = txRequests \cup
                      {TxRequest("update", {id}, NoRow, updates, prev)}
    /\ txCalls' = txCalls + 1
    /\ UNCHANGED <<budgets, selectedMonth, zone, clock, recurring, dueSoon, savings,
                   progress, view, hookVars, importVars, householdVars, sessionVars,
                   wizardVars, dbTransactions, handlerTransactions, txEvents, nextTxId>>

\* deleteTransaction(id), with the id of a row the page shows
DeleteTransaction ==
    /\ txCalls < MaxTxCalls
    /\ \E i \in DOMAIN handlerTransactions :
           LET id   == handlerTransactions[i].id
               prev == handlerTransactions
           IN  /\ transactions' = SelectSeq(handlerTransactions, LAMBDA t : t.id # id)
               /\ txRequests' = txRequests \cup
                      {TxRequest("delete", {id}, NoRow, NoUpdates, prev)}
    /\ txCalls' = txCalls + 1
    /\ UNCHANGED <<budgets, selectedMonth, zone, clock, recurring, dueSoon, savings,
                   progress, view, hookVars, importVars, householdVars, sessionVars,
                   wizardVars, dbTransactions, handlerTransactions, txEvents, nextTxId>>

\* bulkUpdateTransactions(ids, updates), with the ids of rows the page
\* shows; an empty selection returns at once.
BulkUpdateTransactions ==
    /\ txCalls < MaxTxCalls
    /\ \E ids \in SUBSET {handlerTransactions[i].id : i \in DOMAIN handlerTransactions},
          updates \in {Updates({"date"}, <<2024, 1, 15>>, 0),
                       Updates({"amount"}, <<2024, 1, 1>>, -100)} :
           LET prev == handlerTransactions
           IN  IF ids = {}
               THEN UNCHANGED <<transactions, txRequests>>
               ELSE /\ transactions' = [j \in DOMAIN handlerTransactions |->
                                           IF handlerTransactions[j].id \in ids
                                           THEN Merge(handlerTransactions[j], updates)
                                           ELSE handlerTransactions[j]]
                    /\ txRequests' = txRequests \cup
                           {TxRequest("bulk", ids, NoRow, updates, prev)}
    /\ txCalls' = txCalls + 1
    /\ UNCHANGED <<budgets, selectedMonth, zone, clock, recurring, dueSoon, savings,
                   progress, view, hookVars, importVars, householdVars, sessionVars,
                   wizardVars, dbTransactions, handlerTransactions, txEvents, nextTxId>>

\* The page renders again: the handlers close over the current list.
RenderTransactions ==
    /\ handlerTransactions # transactions
    /\ handlerTransactions' = transactions
    /\ UNCHANGED <<budgets, selectedMonth, zone, clock, recurring, dueSoon, savings,
                   progress, view, hookVars, importVars, householdVars, sessionVars,
                   wizardVars, transactions, dbTransactions, txRequests, txEvents,
                   nextTxId, txCalls>>

\* The database runs a request of the hook and answers it; every row a
\* statement changed is published on the realtime channel.
DatabaseRunsTxRequest ==
    \E req \in txRequests :
        /\ req.status = "sent"
        /\ LET rest     == txRequests \ {req}
               answered == [req EXCEPT !.status = "answered"]
               failed   == [answered EXCEPT !.error = TRUE]
               matched  == {r \in dbTransactions : r.id \in req.ids}
               merged   == {Merge(r, req.updates) : r \in matched}
           IN  CASE req.kind = "insert" ->
                      LET row == [req.row EXCEPT !.id = nextTxId]
                      IN  IF AmountCheckFails(row)
                          THEN /\ txRequests' = rest \cup {failed}
                               /\ UNCHANGED <<dbTransactions, txEvents, nextTxId>>
                          ELSE /\ dbTransactions' = dbTransactions \cup {row}
                               /\ txEvents' = Append(txEvents, TxEvent("INSERT", row))
                               /\ nextTxId' = nextTxId + 1
                               /\ txRequests' = rest \cup {[answered EXCEPT !.data = <<row>>]}
                 [] req.kind \in {"update", "bulk"} ->
                      IF \E r \in merged : AmountCheckFails(r)
                      THEN /\ txRequests' = rest \cup {failed}
                           /\ UNCHANGED <<dbTransactions, txEvents, nextTxId>>
                      ELSE /\ dbTransactions' = (dbTransactions \ matched) \cup merged
                           /\ txEvents' = txEvents \o EventsOf("UPDATE", merged)
                           /\ txRequests' = rest \cup {answered}
                           /\ UNCHANGED nextTxId
                 [] req.kind = "delete" ->
                      /\ dbTransactions' = dbTransactions \ matched
                      /\ txEvents' = txEvents \o EventsOf("DELETE", matched)
                      /\ txRequests' = rest \cup {answered}
                      /\ UNCHANGED nextTxId
                 [] req.kind = "select" ->
                      /\ \E data \in SelectTransactions(dbTransactions) :
                             txRequests' = rest \cup {[answered EXCEPT !.data = data]}
                      /\ UNCHANGED <<dbTransactions, txEvents, nextTxId>>
        /\ UNCHANGED <<budgets, selectedMonth, zone, clock, recurring, dueSoon, savings,
                       progress, view, hookVars, importVars, householdVars, sessionVars,
                       wizardVars, transactions, handlerTransactions, txCalls>>

\* A request does not reach the database: the client gets an error.
TxRequestFails ==
    \E req \in txRequests :
        /\ req.status = "sent"
        /\ txRequests' = (txRequests \ {req})
                             \cup {[req EXCEPT !.status = "answered", !.error = TRUE]}
        /\ UNCHANGED <<budgets, selectedMonth, zone, clock, recurring, dueSoon, savings,
                       progress, view, hookVars, importVars, householdVars, sessionVars,
                       wizardVars, transactions, dbTransactions, handlerTransactions,
                       txEvents, nextTxId, txCalls>>

\* The answer of a request arrives: the code after its `await` runs.
ResolveTxRequest ==
    \E req \in txRequests :
        /\ req.status = "answered"
        /\ txRequests' = txRequests \ {req}
        /\ transactions' =
               CASE req.kind = "insert" ->
                      IF req.error
                      THEN SelectSeq(transactions, LAMBDA t : t.id # req.row.id)
                      ELSE [i \in DOMAIN transactions |->
                               IF transactions[i].id = req.row.id
                               THEN req.data[1] ELSE transactions[i]]
                 [] req.kind \in {"update", "delete", "bulk"} ->
                      IF req.error THEN req.prev ELSE transactions
                 [] req.kind = "select" ->
                      IF req.error THEN transactions ELSE req.data
        /\ UNCHANGED <<budgets, selectedMonth, zone, clock, recurring, dueSoon, savings,
                       progress, view, hookVars, importVars, householdVars, sessionVars,
                       wizardVars, dbTransactions, handlerTransactions, txEvents,
                       nextTxId, txCalls>>

\* The oldest event of the channel reaches its handler.
DeliverTxEvent ==
    /\ txEvents # <<>>
    /\ LET payload == Head(txEvents)
           row     == payload.row
       IN  transactions' =
               CASE payload.eventType = "INSERT" ->
                      IF \E i \in DOMAIN transactions : transactions[i].id = row.id
                      THEN transactions
                      ELSE SortByDate(<<row>> \o transactions)
                 [] payload.eventType = "UPDATE" ->
                      [i \in DOMAIN transactions |->
                          IF transactions[i].id = row.id THEN row ELSE transactions[i]]
                 [] payload.eventType = "DELETE" ->
                      SelectSeq(transactions, LAMBDA t : t.id # row.id)
    /\ txEvents' = Tail(txEvents)
    /\ UNCHANGED <<budgets, selectedMonth, zone, clock, recurring, dueSoon, savings,
                   progress, view, hookVars, importVars, householdVars, sessionVars,
                   wizardVars, dbTransactions, handlerTransactions, txRequests,
                   nextTxId, txCalls>>

\* The partner adds a transaction from another browser.
PartnerAddsTransaction ==
    /\ txCalls < MaxTxCalls
    /\ LET row == TxRow(nextTxId, <<2024, 1, 15>>, 1000)
       IN  /\ dbTransactions' = dbTransactions \cup {row}
           /\ txEvents' = Append(txEvents, TxEvent("INSERT", row))
    /\ nextTxId' = nextTxId + 1
    /\ txCalls' = txCalls + 1
    /\ UNCHANGED <<budgets, selectedMonth, zone, clock, recurring, dueSoon, savings,
                   progress, view, hookVars, importVars, householdVars, sessionVars,
                   wizardVars, transactions, handlerTransactions, txRequests>>

\* The household has one transaction, fetched by the hook.
InitTransactionsHook ==
    /\ budgets = <<>>
    /\ selectedMonth = <<2024, 1>>
    /\ zone = "UTC"
    /\ clock = EpochDay(<<2024, 1, 20>>)
    /\ recurring = <<>>
    /\ dueSoon = <<>>
    /\ savings = SavingsRate(<<>>)
    /\ progress = <<>>
    /\ view = "none"
    /\ HookIdle
    /\ ImportIdle
    /\ HouseholdIdle
    /\ SessionIdle
    /\ WizardIdle
    /\ dbTransactions = {TxRow(1, <<2024, 1, 8>>, 1000)}
    /\ transactions \in SelectTransactions(dbTransactions)
    /\ handlerTransactions = transactions
    /\ txRequests = {}
    /\ txEvents = <<>>
    /\ nextTxId = 2
    /\ txCalls = 0

NextTransactionsHook ==
    \/ FetchTransactions
    \/ AddTransaction
    \/ UpdateTransaction
    \/ DeleteTransaction
    \/ BulkUpdateTransactions
    \/ RenderTransactions
    \/ DatabaseRunsTxRequest
    \/ TxRequestFails
    \/ ResolveTxRequest
    \/ DeliverTxEvent
    \/ PartnerAddsTransaction

SpecTransactionsHook == InitTransactionsHook /\ [][NextTransactionsHook]_vars

(***************************************************************************)
(* The middleware: updateSession answers a request with a redirect or with *)
(* the pass-through response, and the browser follows a redirect with a    *)
(* request for the new path; url = request.nextUrl.clone() keeps the query *)
(* string, so the code travels with every redirect, and the cookies of the *)
(* browser, so the session stays what it was.                              *)
(***************************************************************************)
MaxHops == 4

\* NextResponse.redirect(url), with url.pathname = pathname
Redirect(pathname) == [kind |-> "redirect", pathname |-> pathname]

\* NextResponse.next({ request })
PassThrough == [kind |-> "next", pathname |-> ""]

\* A request: its path, whether its query string has a `code`, and whether
\* supabase.auth.getUser() finds a user in its cookies
Request(pathname, code, user) == [pathname |-> pathname, code |-> code, user |-> user]

isAuthPage(pathname) == pathname = "/login" \/ pathname = "/signup"

updateSession_AuthPagesForAll(req) ==
    IF req.code /\ req.pathname # "/auth/callback" THEN Redirect("/auth/callback")
    ELSE IF ~req.user /\ ~isAuthPage(req.pathname) THEN Redirect("/login")
    ELSE PassThrough

updateSession(req) ==
    IF req.code /\ req.pathname # "/auth/callback" THEN Redirect("/auth/callback")
    ELSE IF ~req.user /\ ~isAuthPage(req.pathname) THEN Redirect("/login")
    ELSE IF req.user /\ isAuthPage(req.pathname) THEN Redirect("/")
    ELSE PassThrough

Pathnames == {"/", "/login", "/signup", "/auth/callback", "/settings", "/api/import"}

outsideSession == <<pageVars, budgets, hookVars, importVars, householdVars, txVars,
                    wizardVars>>

\* The middleware answers the request of the browser.
UpdateSession ==
    /\ response = NoResponse
    /\ response' = updateSession(browserRequest)
    /\ UNCHANGED <<outsideSession, browserRequest, hops>>

\* The browser follows the redirect: the same query string and cookies,
\* the new path.
FollowRedirect ==
    /\ response.kind = "redirect"
    /\ Len(hops) < MaxHops
    /\ hops' = Append(hops, browserRequest.pathname)
    /\ browserRequest' = [browserRequest EXCEPT !.pathname = response.pathname]
    /\ response' = NoResponse
    /\ UNCHANGED outsideSession

InitSession ==
    /\ PageIdle
    /\ budgets = <<>>
    /\ HookIdle
    /\ ImportIdle
    /\ HouseholdIdle
    /\ TxIdle
    /\ WizardIdle
    /\ browserRequest \in {Request(pathname, code, user) :
                             pathname \in Pathnames, code \in BOOLEAN, user \in BOOLEAN}
    /\ response = NoResponse
    /\ hops = <<>>

NextSession == UpdateSession \/ FollowRedirect

SpecSession == InitSession /\ [][NextSession]_vars

(***************************************************************************)
(* SmartImport: the wizard uploads a file to POST /api/import, shows the   *)
(* extracted transactions for review and hands the selected ones to        *)
(* handleSmartImport, which adds their categories and upserts them with    *)
(* importTransactions.                                                     *)
(***************************************************************************)
MaxWizardRows == 2

\* A call of the wizard in flight: the upload, or the import of `rows`
WizardCall(kind, rows) == [kind |-> kind, rows |-> rows]

\* setImportMsg({ type, text }), the text of a success naming `count`
ImportMsg(type, count) == [type |-> type, count |-> count]

\* The column `date` takes a date of the calendar only.
IsCalendarDate(date) == DateOfEpochDay(EpochDay(date)) = date

\* The upsert is one statement: a row the table rejects fails all of it.
UpsertFails(rows) ==
    \E i \in DOMAIN rows : ~IsCalendarDate(rows[i].date) \/ AmountCheckFails(rows[i])

\* The transactions the route can return: the route keeps the first ten
\* characters of whatever date the document gave.
ExtractedRows ==
    {Transaction(date, DescHBO, 1000, category, FALSE) :
        date \in {<<2024, 1, 8>>, <<2024, 2, 30>>}, category \in {"subscriptions", "other"}}

ExtractedLists == UNION {[1..n -> ExtractedRows] : n \in 1..MaxWizardRows}

\* extracted.filter((_, i) => selected.has(i))
SelectedRows == SelectSeq([i \in DOMAIN extracted |-> [at |-> i, row |-> extracted[i]]],
                          LAMBDA e : e.at \in selected)

outsideWizard == <<budgets, selectedMonth, zone, clock, recurring, dueSoon, savings,
                   progress, view, hookVars, importVars, householdVars, sessionVars,
                   handlerTransactions, txRequests, txCalls>>

\* handleFileUpload, up to its await
HandleFileUpload ==
    /\ step = "upload"
    /\ wizardCall = NoWizardCall
    /\ Cardinality(dbTransactions) < MaxWizardRows
    /\ step' = "processing"
    /\ wizardError' = ""
    /\ wizardCall' = WizardCall("upload", <<>>)
    /\ UNCHANGED <<outsideWizard, transactions, dbTransactions, txEvents, nextTxId,
                   extracted, selected, importMsg, categories>>

\* handleFileUpload, after its await: the route answered with transactions,
\* with an error, or the request or the parsing of the answer threw.
UploadAnswers ==
    /\ wizardCall.kind = "upload"
    /\ \/ \E data \in ExtractedLists :
              /\ extracted' = data
              /\ selected' = DOMAIN data
              /\ step' = "review"
              /\ UNCHANGED wizardError
       \/ \E dataError \in {"", "Unauthorized"} :
              /\ wizardError' = IF dataError # "" THEN dataError
                                ELSE "Failed to process file"
              /\ step' = "upload"
              /\ UNCHANGED <<extracted, selected>>
       \/ /\ wizardError' = "Failed to process file. Please try again."
          /\ step' = "upload"
          /\ UNCHANGED <<extracted, selected>>
    /\ wizardCall' = NoWizardCall
    /\ UNCHANGED <<outsideWizard, transactions, dbTransactions, txEvents, nextTxId,
                   importMsg, categories>>

\* toggleTransaction(index)
ToggleTransaction ==
    /\ step = "review"
    /\ \E index \in DOMAIN extracted :
           selected' = IF index \in selected THEN selected \ {index}
                       ELSE selected \cup {index}
    /\ UNCHANGED <<outsideWizard, transactions, dbTransactions, txEvents, nextTxId,
                   step, extracted, wizardError, importMsg, categories, wizardCall>>

\* toggleAll()
ToggleAll ==
    /\ step = "review"
    /\ selected' = IF Cardinality(selected) = Len(extracted) THEN {}
                   ELSE DOMAIN extracted
    /\ UNCHANGED <<outsideWizard, transactions, dbTransactions, txEvents, nextTxId,
                   step, extracted, wizardError, importMsg, categories, wizardCall>>

\* handleConfirmImport up to its await, and handleSmartImport up to the
\* await of importTransactions: the categories the household does not
\* have are added, the rows are sent.
HandleConfirmImport ==
    /\ step = "review"
    /\ LET toImport == [i \in DOMAIN SelectedRows |-> SelectedRows[i].row]
       IN  IF Len(toImport) = 0
           THEN UNCHANGED <<step, categories, wizardCall>>
           ELSE /\ step' = "processing"
                /\ categories' = categories \cup
                       {toImport[i].category : i \in DOMAIN toImport}
                /\ wizardCall' = WizardCall("import", toImport)
    /\ UNCHANGED <<outsideWizard, transactions, dbTransactions, txEvents, nextTxId,
                   extracted, selected, wizardError, importMsg>>

\* importTransactions, the rest of handleSmartImport and the rest of
\* handleConfirmImport: the database runs the upsert; on an error the page
\* shows it, otherwise the hook fetches the list and the page shows the
\* count; then the wizard moves to its last step.
ImportAnswers ==
    /\ wizardCall.kind = "import"
    /\ LET rows     == wizardCall.rows
           inserted == [i \in DOMAIN rows |-> [id |-> nextTxId + i - 1] @@ rows[i]]
       IN  IF UpsertFails(rows)
           THEN /\ importMsg' = ImportMsg("error", 0)
                /\ UNCHANGED <<transactions, dbTransactions, txEvents, nextTxId>>
           ELSE /\ dbTransactions' = dbTransactions \cup
                                         {inserted[i] : i \in DOMAIN inserted}
                /\ txEvents' = txEvents \o [i \in DOMAIN inserted |->
                                               TxEvent("INSERT", inserted[i])]
                /\ nextTxId' = nextTxId + Len(rows)
                /\ transactions' \in SelectTransactions(dbTransactions')
                /\ importMsg' = ImportMsg("success", Len(inserted))
    /\ step' = "done"
    /\ wizardCall' = NoWizardCall
    /\ UNCHANGED <<outsideWizard, extracted, selected, wizardError, categories>>

\* "Cancel" of the review and "Import Another" of the last step
StartOver ==
    /\ step \in {"review", "done"}
    /\ step' = "upload"
    /\ extracted' = <<>>
    /\ UNCHANGED <<outsideWizard, transactions, dbTransactions, txEvents, nextTxId,
                   selected, wizardError, importMsg, categories, wizardCall>>

\* "dismiss" of the error message
DismissError ==
    /\ wizardError # ""
    /\ wizardError' = ""
    /\ UNCHANGED <<outsideWizard, transactions, dbTransactions, txEvents, nextTxId,
                   step, extracted, selected, importMsg, categories, wizardCall>>

\* The wizard opens on a household that has no transactions yet.
InitWizard ==
    /\ PageIdle
    /\ budgets = <<>>
    /\ HookIdle
    /\ ImportIdle
    /\ HouseholdIdle
    /\ SessionIdle
    /\ TxIdle
    /\ step = "upload"
    /\ extracted = <<>>
    /\ selected = {}
    /\ wizardError = ""
    /\ importMsg = NoImportMsg
    /\ categories = {"subscriptions"}
    /\ wizardCall = NoWizardCall

NextWizard ==
    \/ HandleFileUpload
    \/ UploadAnswers
    \/ ToggleTransaction
    \/ ToggleAll
    \/ HandleConfirmImport
    \/ ImportAnswers
    \/ StartOver
    \/ DismissError

SpecWizard == InitWizard /\ [][NextWizard]_vars

(***************************************************************************)
(* The page: every component renders the same snapshot                     *)
(***************************************************************************)
Init ==
    \/ InitRecurring
    \/ InitDescriptions
    \/ InitPriceChange
    \/ InitDueSoon
    \/ InitSavings
    \/ InitBudget
    \/ InitBudgetHook
    \/ InitImport
    \/ InitHousehold
    \/ InitOrder
    \/ InitTransactionsHook
    \/ InitSession
    \/ InitWizard

Next ==
    \/ RenderRecurringExpenses
    \/ SelectMonth
    \/ AdvanceClock
    \/ RenderSavingsRate
    \/ RenderSummary
    \/ NextBudgetHook
    \/ NextImport
    \/ NextHousehold
    \/ NextTransactionsHook
    \/ NextSession
    \/ NextWizard

Spec == Init /\ [][Next]_vars

(***************************************************************************)
(* The three computations on one snapshot                                  *)
(***************************************************************************)
InitViews == InitDueSoon \/ InitSavings \/ InitBudget

NextViews == RenderRecurringExpenses \/ RenderSavingsRate \/ RenderSummary

SpecViews == InitViews /\ [][NextViews]_vars

(***************************************************************************)
(* Properties of the recurring-expense view                                *)
(***************************************************************************)
ExpenseIndexes(key) ==
    {i \in DOMAIN transactions :
        /\ ~transactions[i].is_income
        /\ NormalizeDescription(transactions[i].description) = key}

ExpenseKeys ==
    {NormalizeDescription(transactions[i].description) :
        i \in {j \in DOMAIN transactions : ~transactions[j].is_income}}

ItemsOf(key) ==
    {i \in DOMAIN recurring : NormalizeDescription(recurring[i].description) = key}

\* The day numbers of the expenses of a group, oldest first, and the gaps
\* between consecutive ones.
DaysOf(key) ==
    LET idx  == ExpenseIndexes(key)
        days == [i \in idx |-> EpochDay(transactions[i].date)]
        rank(i) == Cardinality({j \in idx : days[j] < days[i] \/ (days[j] = days[i] /\ j < i)}) + 1
    IN  [k \in 1..Cardinality(idx) |-> days[CHOOSE i \in idx : rank(i) = k]]

GapsOf(key) ==
    LET days == DaysOf(key)
    IN  [k \in 1..(Len(days) - 1) |-> days[k + 1] - days[k]]

\* Twice the median of a non-empty sequence of numbers
TwiceMedian(values) ==
    LET n == Len(values)
        AtMost(x) == Cardinality({k \in DOMAIN values : values[k] <= x})
        \* the k-th smallest value
        Kth(k) == CHOOSE x \in {values[j] : j \in DOMAIN values} :
                      /\ AtMost(x) >= k
                      /\ \A y \in {values[j] : j \in DOMAIN values} : y < x => AtMost(y) < k
    IN  IF n % 2 = 1 THEN 2 * Kth((n + 1) \div 2)
        ELSE Kth(n \div 2) + Kth(n \div 2 + 1)

\* The frequency ranges of the specification, on twice the median
RangeOf(m2) ==
    IF 10 <= m2 /\ m2 <= 20 THEN "weekly"
    ELSE IF 24 <= m2 /\ m2 <= 36 THEN "biweekly"
    ELSE IF 50 <= m2 /\ m2 <= 76 THEN "monthly"
    ELSE IF 160 <= m2 /\ m2 <= 200 THEN "quarterly"
    ELSE "gap"

\* Population standard deviation of the gaps > 0.35 * median:
\* (N * sum(g^2) - sum(g)^2) / N^2 > (0.35 * m2 / 2)^2
DeviationAboveThreshold(gaps) ==
    LET N  == Len(gaps)
        S  == SumSeq(gaps)
        SS == SumSeq([k \in DOMAIN gaps |-> gaps[k] * gaps[k]])
        m2 == TwiceMedian(gaps)
    IN  1600 * (N * SS - S * S) > 49 * m2 * m2 * N * N

\* C1: every returned item is built from at least 2 expense transactions
\* with its normalized description (occurrences and amounts count them), and
\* a description that occurs once among the expenses is never returned.
C1_AtLeastTwoOccurrences ==
    view = "recurring" =>
        /\ \A i \in DOMAIN recurring :
               LET n == Cardinality(ExpenseIndexes(NormalizeDescription(recurring[i].description)))
               IN  /\ n >= 2
                   /\ recurring[i].occurrences = n
                   /\ Len(recurring[i].amounts) = n
        /\ \A key \in ExpenseKeys :
               Cardinality(ExpenseIndexes(key)) = 1 => ItemsOf(key) = {}

C1_Witness ==
    /\ view = "recurring"
    /\ recurring # <<>>
    /\ \E key \in ExpenseKeys : Cardinality(ExpenseIndexes(key)) = 1
    /\ \E i \in DOMAIN transactions : transactions[i].is_income

\* C2: a returned item's frequency is the range holding the median gap of
\* its group (weekly [5,10], biweekly [12,18], monthly [25,38], quarterly
\* [80,100]); a group whose median is in no range is not returned; four
\* occurrences exactly 30 days apart are returned as monthly.
C2_FrequencyByMedian ==
    view = "recurring" =>
        /\ \A i \in DOMAIN recurring :
               LET key == NormalizeDescription(recurring[i].description)
               IN  /\ Cardinality(ExpenseIndexes(key)) >= 2
                   /\ RangeOf(TwiceMedian(GapsOf(key))) # "gap"
                   /\ recurring[i].frequency = RangeOf(TwiceMedian(GapsOf(key)))
        /\ \A key \in ExpenseKeys :
               /\ Cardinality(ExpenseIndexes(key)) >= 2
               /\ RangeOf(TwiceMedian(GapsOf(key))) = "gap"
               => ItemsOf(key) = {}
        /\ \A key \in ExpenseKeys :
               GapsOf(key) = <<30, 30, 30>> =>
                   \E i \in ItemsOf(key) : recurring[i].frequency = "monthly"

C2_Witness ==
    /\ view = "recurring"
    /\ \E key \in ExpenseKeys :
           /\ GapsOf(key) = <<30, 30, 30>>
           /\ \E i \in ItemsOf(key) :
                  recurring[i].frequency = "monthly" /\ recurring[i].occurrences = 4

MonthlyCostFactor(frequency) ==
    CASE frequency = "weekly"    -> 1299
      [] frequency = "biweekly"  -> 651
      [] frequency = "monthly"   -> 300
      [] frequency = "quarterly" -> 100

MonthlyCostAtLeast(a, b) ==
    RatCompare(SumSeq(a.amounts) * MonthlyCostFactor(a.frequency), Len(a.amounts),
               SumSeq(b.amounts) * MonthlyCostFactor(b.frequency), Len(b.amounts)) >= 0

\* C4: the returned sequence is ordered by non-increasing monthly
\* equivalent of the average amount.
C4_OrderedByMonthlyCost ==
    view = "recurring" =>
        \A i \in DOMAIN recurring :
            i + 1 \in DOMAIN recurring =>
                MonthlyCostAtLeast(recurring[i], recurring[i + 1])

C4_Witness ==
    /\ view = "recurring"
    /\ Len(recurring) = 2
    /\ recurring[1].frequency = "weekly" /\ recurring[1].amounts = <<1000, 1000>>
    /\ recurring[2].frequency = "monthly" /\ recurring[2].amounts = <<4000, 4000>>

(***************************************************************************)
(* Properties of the savings-rate view                                     *)
(***************************************************************************)
MonthsPresent == {MonthOf(transactions[i].date) : i \in DOMAIN transactions}

MonthBefore(a, b) == a[1] < b[1] \/ (a[1] = b[1] /\ a[2] < b[2])

\* The sum of the amounts of the income rows (income = TRUE) or of the
\* other rows (income = FALSE) of a set of months
RECURSIVE SumOver(_)
SumOver(idx) ==
    IF idx = {} THEN 0
    ELSE LET i == CHOOSE j \in idx : TRUE
         IN  transactions[i].amount + SumOver(idx \ {i})

TotalOf(months, income) ==
    SumOver({i \in DOMAIN transactions :
                /\ MonthOf(transactions[i].date) \in months
                /\ transactions[i].is_income = income})

\* r tenths of a percent is (income - expenses) / income * 100 rounded to
\* one decimal: no other number of tenths is nearer.
IsRateOf(r, income, expenses) ==
    LET off == r * income - 1000 * (income - expenses)
    IN  2 * (IF off < 0 THEN -off ELSE off) <= income

\* The n latest of the months present
LatestMonths(n) ==
    {m \in MonthsPresent :
        Cardinality({k \in MonthsPresent : MonthBefore(m, k)}) < n}

\* C5: one entry per distinct month of the transaction dates, in strictly
\* ascending month order.
C5_OneEntryPerMonthAscending ==
    view = "savings" =>
        LET data == savings.monthlyData
        IN  /\ {data[i].month : i \in DOMAIN data} = MonthsPresent
            /\ Len(data) = Cardinality(MonthsPresent)
            /\ \A i \in DOMAIN data :
                   i + 1 \in DOMAIN data => MonthBefore(data[i].month, data[i + 1].month)

C5_Witness ==
    /\ view = "savings"
    /\ Len(savings.monthlyData) = 3
    /\ Len(transactions) = 3
    /\ MonthBefore(MonthOf(transactions[2].date), MonthOf(transactions[1].date))
    /\ MonthBefore(MonthOf(transactions[2].date), MonthOf(transactions[3].date))

\* C6: a month's savingsRate is (income - expenses) / income * 100 rounded
\* to one decimal when the month has income (negative when expenses exceed
\* income; 30.0 for income 1000 and expenses 700), and 0 when it has none.
C6_SavingsRateFormula ==
    view = "savings" =>
        \A i \in DOMAIN savings.monthlyData :
            LET entry    == savings.monthlyData[i]
                income   == TotalOf({entry.month}, TRUE)
                expenses == TotalOf({entry.month}, FALSE)
            IN  /\ income > 0 => IsRateOf(entry.savingsRate, income, expenses)
                /\ income > 0 /\ expenses > income => entry.savingsRate < 0
                /\ income = 100000 /\ expenses = 70000 => entry.savingsRate = 300
                /\ income = 0 => entry.savingsRate = 0

C6_Witness ==
    /\ view = "savings"
    /\ \E i, j, k \in DOMAIN savings.monthlyData :
           /\ savings.monthlyData[i].income = 100000
           /\ savings.monthlyData[i].expenses = 70000
           /\ savings.monthlyData[i].savingsRate = 300
           /\ savings.monthlyData[j].income = 0
           /\ savings.monthlyData[j].expenses > 0
           /\ savings.monthlyData[j].savingsRate = 0
           /\ savings.monthlyData[k].savingsRate < 0

RollingOf(months) == IF months = 3 THEN savings.rolling3 ELSE savings.rolling12

\* C7 as stated: the rolling average over 3 and 12 months is null exactly
\* when fewer than that many months are present, and otherwise the rounded
\* ratio of the summed income and expenses of the last months, 0 when that
\* summed income is 0.
C7_NullOnlyWhenTooFewMonths ==
    view = "savings" /\ savings.hasIncome =>
        \A months \in {3, 12} :
            LET income   == TotalOf(LatestMonths(months), TRUE)
                expenses == TotalOf(LatestMonths(months), FALSE)
            IN  /\ ~RollingOf(months).some <=> Cardinality(MonthsPresent) < months
                /\ RollingOf(months).some /\ income > 0 =>
                       IsRateOf(RollingOf(months).val, income, expenses)
                /\ RollingOf(months).some /\ income = 0 => RollingOf(months).val = 0

\* C7 amended: the rolling average is null exactly when fewer than that many
\* months are present or the summed income of the last months is 0, and
\* otherwise the rounded ratio of the summed income and expenses of the
\* last months.
C7_RollingAverageOfSums ==
    view = "savings" /\ savings.hasIncome =>
        \A months \in {3, 12} :
            LET income   == TotalOf(LatestMonths(months), TRUE)
                expenses == TotalOf(LatestMonths(months), FALSE)
            IN  /\ ~RollingOf(months).some <=>
                       (Cardinality(MonthsPresent) < months \/ income = 0)
                /\ RollingOf(months).some =>
                       IsRateOf(RollingOf(months).val, income, expenses)

\* 12 months with income among the last 12 but none in the last 3, and a
\* 12-month figure that differs from the mean of the 12 monthly rates.
C7_Witness ==
    /\ view = "savings"
    /\ savings.hasIncome
    /\ Len(savings.monthlyData) >= 12
    /\ savings.rolling12.some
    /\ ~savings.rolling3.some
    /\ LET recent == LastMonths(savings.monthlyData, 12)
       IN  12 * savings.rolling12.val
               # SumSeq([i \in DOMAIN recent |-> recent[i].savingsRate])

\* C8: years to FI is computed from the rate of the latest month present:
\* null for a rate <= 0, 0 for a rate >= 100, and otherwise a number >= 0.
C8_YearsToFIOfLatestMonth ==
    view = "savings" /\ savings.hasIncome =>
        LET current == savings.current.val
        IN  /\ LatestMonths(1) = {current.month}
            /\ \E i \in DOMAIN savings.monthlyData : savings.monthlyData[i] = current
            /\ current.savingsRate <= 0 => ~savings.yearsToFI.some
            /\ current.savingsRate >= 1000 =>
                   savings.yearsToFI.some /\ savings.yearsToFI.val = 0
            /\ current.savingsRate > 0 /\ current.savingsRate < 1000 =>
                   savings.yearsToFI.some /\ savings.yearsToFI.val >= 0

C8_Witness ==
    /\ view = "savings"
    /\ savings.hasIncome
    /\ Len(savings.monthlyData) >= 2
    /\ savings.current.val.savingsRate = 300
    /\ savings.yearsToFI = Some(280)
    /\ savings.monthlyData[1].savingsRate # 300

(***************************************************************************)
(* Properties of the budget-progress view                                  *)
(***************************************************************************)
\* The expenses of the selected month in a category
SpendingRows(category) ==
    {i \in DOMAIN transactions :
        /\ ~transactions[i].is_income
        /\ MonthOf(transactions[i].date) = selectedMonth
        /\ transactions[i].category = category}

\* C9: the budget progress has exactly one entry per budget, whose spent is
\* the sum of the amounts of the expenses of the selected month in the
\* budget's category, 0 when there is none; income rows and rows of other
\* months do not count.
C9_SpentPerBudget ==
    view = "summary" =>
        /\ Len(progress) = Len(budgets)
        /\ \A i \in DOMAIN budgets :
               /\ progress[i].id = budgets[i].id
               /\ progress[i].category = budgets[i].category
               /\ progress[i].spent = SumOver(SpendingRows(budgets[i].category))
               /\ SpendingRows(budgets[i].category) = {} => progress[i].spent = 0

C9_Witness ==
    /\ view = "summary"
    /\ Len(progress) = 2
    /\ progress[1].spent = 5000
    /\ progress[2].spent = 0
    /\ \E i \in DOMAIN transactions :
           transactions[i].category = "rent" /\ MonthOf(transactions[i].date) # selectedMonth
    /\ \E i \in DOMAIN transactions :
           /\ transactions[i].category = "food"
           /\ transactions[i].is_income
           /\ MonthOf(transactions[i].date) = selectedMonth

\* C10: the percentage of a budget is spent / limit * 100 without an upper
\* clamp (150 for limit 100 and spent 150), 0 when the limit is not
\* positive; only the bar width is min(percentage, 100).
C10_PercentUnclamped ==
    view = "summary" =>
        \A i \in DOMAIN progress :
            LET e == progress[i]
            IN  /\ e.limit > 0 => RatCompare(e.pct.n, e.pct.d, e.spent * 100, e.limit) = 0
                /\ e.limit <= 0 => e.pct.n = 0
                /\ e.limit = 10000 /\ e.spent = 15000 =>
                       RatCompare(e.pct.n, e.pct.d, 150, 1) = 0
                /\ RatCompare(e.clamped.n, e.clamped.d, 100, 1) <= 0
                /\ RatCompare(e.pct.n, e.pct.d, 100, 1) <= 0 => e.clamped = e.pct
                /\ RatCompare(e.pct.n, e.pct.d, 100, 1) > 0 =>
                       RatCompare(e.clamped.n, e.clamped.d, 100, 1) = 0

C10_Witness ==
    /\ view = "summary"
    /\ \E i, j \in DOMAIN progress :
           /\ progress[i].limit = 10000
           /\ progress[i].spent = 15000
           /\ RatCompare(progress[i].pct.n, progress[i].pct.d, 150, 1) = 0
           /\ RatCompare(progress[i].clamped.n, progress[i].clamped.d, 100, 1) = 0
           /\ progress[j].limit = 0
           /\ progress[j].spent > 0
           /\ progress[j].pct.n = 0

(***************************************************************************)
(* Properties of the reminders                                             *)
(***************************************************************************)
\* C11: a later evaluation of the view on the same transactions gives the
\* same items and the same due-soon flags as the one before, whatever the
\* system clock shows at the time (the view takes no date as a parameter).
C11_ViewIndependentOfClock ==
    [][view = "stale" /\ view' = "recurring" =>
          recurring' = recurring /\ dueSoon' = dueSoon]_vars

MissingRows ==
    {i \in DOMAIN transactions :
        ~transactions[i].is_income /\ transactions[i].description = MissingDescription}

\* C13: detectRecurring lets no error escape: expenses without a
\* description are grouped under the empty string and the call returns
\* (two of them a week apart give one weekly item), and an empty list gives
\* an empty result.
C13_NoErrorOnDegenerateRecords ==
    /\ view # "error"
    /\ view = "recurring" /\ transactions = <<>> => recurring = <<>>
    /\ view = "recurring" /\ Cardinality(MissingRows) = 2 /\ Len(transactions) = 2
           /\ transactions[1].date # transactions[2].date
           => Len(recurring) = 1 /\ recurring[1].occurrences = 2

(***************************************************************************)
(* Income and recurrence detection                                         *)
(***************************************************************************)
\* The list without its income rows
WithoutIncome(txs) == SelectSeq(txs, LAMBDA t : ~t.is_income)

\* C14: income rows do not influence the detection: the result on the whole
\* list is the result on the list without its income rows, also when an
\* income row has the description of an expense group.
C14_IncomeDoesNotInfluence ==
    view = "recurring" => recurring = detectRecurring(WithoutIncome(transactions))

\* An income row between two expenses of its description, which are
\* returned as an item of two occurrences.
C14_Witness ==
    /\ view = "recurring"
    /\ Len(recurring) >= 1
    /\ \E i, j, k \in DOMAIN transactions :
           /\ i < j /\ j < k
           /\ transactions[j].is_income
           /\ ~transactions[i].is_income
           /\ ~transactions[k].is_income
           /\ transactions[i].description = transactions[j].description
           /\ transactions[k].description = transactions[j].description
           /\ \E r \in DOMAIN recurring :
                  /\ recurring[r].description = transactions[i].description
                  /\ recurring[r].occurrences
                         < Cardinality({x \in DOMAIN transactions :
                               transactions[x].description = transactions[i].description})

(***************************************************************************)
(* Properties of the budgets                                               *)
(***************************************************************************)
\* C15: there is at most one budget per category and every limit is
\* positive, in the table at all times and in the list of the hook once
\* every request has resolved.
C15_OneBudgetPerCategory ==
    /\ \A a, b \in dbBudgets : a.category = b.category => a = b
    /\ \A b \in dbBudgets : b.amount_limit > 0
    /\ budgetRequests = {} =>
           /\ \A i, j \in DOMAIN budgets : budgets[i].category = budgets[j].category => i = j
           /\ \A i \in DOMAIN budgets : budgets[i].amount_limit > 0

(***************************************************************************)
(* C16: every transaction that POST /api/import returns has an amount that *)
(* is a number >= 0 (a negative value made positive, a value that is not   *)
(* numeric made 0), an expense_type of shared or personal, one of the      *)
(* seven payment methods, one of the fifteen categories, a description of  *)
(* at most 500 characters and notes of at most 1000 characters, whatever   *)
(* the AI model returned.                                                  *)
(***************************************************************************)
C16_ImportedTransactionsAreValid ==
    importResponse # JsNull =>
        \A i \in DOMAIN importResponse.transactions :
            LET t   == importResponse.transactions[i]
                raw == ToNumber(importRequest.rows[i].amount)
            IN  /\ t.amount.type = "number"
                /\ t.amount.kind = "finite"
                /\ t.amount.num >= 0
                /\ raw.kind = "finite" => t.amount.num \in {raw.num, -raw.num}
                /\ raw.kind = "nan" => t.amount.num = 0
                /\ Includes(validExpenseTypes, t.expense_type)
                /\ Includes(validPaymentMethods, t.payment_method)
                /\ Includes(validCategories, t.category)
                /\ Len(t.description) <= MaxDescriptionLength
                /\ Len(t.notes) <= MaxNotesLength

(***************************************************************************)
(* C17: an invite is used once: after its status has become 'used', no     *)
(* step of join_household_by_invite, regenerate_invite,                    *)
(* update_invite_email or revokeInvite changes the status, so at most one  *)
(* user ever becomes a member through one invite seat.                     *)
(***************************************************************************)
C17_InviteIsOneTimeUse ==
    [][/\ \A inv \in inviteRows :
              inv.status = "used" =>
                  \E after \in inviteRows' : after.id = inv.id /\ after.status = "used"
       /\ \A inv \in inviteRows' :
              Cardinality({join \in seatJoins' : join[1] = inv.id}) <= 1]_vars

(***************************************************************************)
(* C18: a user belongs to at most one household: whatever the interleaving *)
(* of the calls of create_household_with_seats and                         *)
(* join_household_by_invite, two calls of one user at the same time        *)
(* included, household_members has at most one row per user; a call of a  *)
(* user who has a membership fails with 'You already belong to a           *)
(* household' and changes nothing.                                         *)
(***************************************************************************)
C18_OneHouseholdPerUser ==
    [][/\ \A user \in Users :
              Cardinality({m \in members' : m.user_id = user}) <= 1
       /\ /\ rpcCount' = rpcCount + 1
          /\ rpcReply'.call = rpcCount'
          /\ rpcReply'.kind \in {"create", "join"}
          /\ HasMembership(members, rpcReply'.caller)
          => /\ rpcReply'.error \in {"You already belong to a household",
                                     "Seat count must be between 1 and 10",
                                     "Display name is required", "Invite code is required"}
             /\ UNCHANGED <<households, members, inviteRows>>]_vars

(***************************************************************************)
(* C19: two expenses are in one group exactly when their descriptions are  *)
(* equal after trimming the surrounding white space and lower-casing:      *)
(* "HBO" and " hbo " are one group, "H BO", which differs inside, is       *)
(* another, and the empty and the blank description are one group, which   *)
(* is returned as an item like any other.  Stated on the items: the items  *)
(* have different classes, an item counts the expenses of its class, and   *)
(* a class of two or more expenses on different days has its item.         *)
(***************************************************************************)
DescriptionClass(description) ==
    CASE description \in {DescHBO, DescHboPadded} -> "hbo"
      [] description = DescSplit                  -> "h bo"
      [] description \in {DescEmpty, DescBlank}   -> ""

ExpensesOfClass(class) ==
    {i \in DOMAIN transactions :
        /\ ~transactions[i].is_income
        /\ DescriptionClass(transactions[i].description) = class}

C19_GroupedByNormalizedDescription ==
    view = "recurring" =>
        /\ \A i, j \in DOMAIN recurring :
               DescriptionClass(recurring[i].description)
                   = DescriptionClass(recurring[j].description) => i = j
        /\ \A i \in DOMAIN recurring :
               recurring[i].occurrences =
                   Cardinality(ExpensesOfClass(DescriptionClass(recurring[i].description)))
        /\ \A class \in {"hbo", "h bo", ""} :
               /\ Cardinality(ExpensesOfClass(class)) >= 2
               /\ \A i, j \in ExpensesOfClass(class) :
                      transactions[i].date = transactions[j].date => i = j
               => \E i \in DOMAIN recurring :
                      DescriptionClass(recurring[i].description) = class

\* An empty and a blank description form an item, next to an expense whose
\* description differs from theirs.
C19_Witness ==
    /\ view = "recurring"
    /\ \E i, j, k \in DOMAIN transactions :
           /\ transactions[i].description = DescEmpty
           /\ transactions[j].description = DescBlank
           /\ transactions[k].description = DescSplit
           /\ ~transactions[i].is_income /\ ~transactions[j].is_income
    /\ \E i \in DOMAIN recurring :
           /\ DescriptionClass(recurring[i].description) = ""
           /\ recurring[i].occurrences = 2

(***************************************************************************)
(* C20: the priceChange of an item is null when the last two amounts       *)
(* differ by at most 0.01, and otherwise (last - prev) / prev * 100        *)
(* rounded to one decimal.  Amounts are cents and priceChange is tenths of *)
(* a percent here.                                                         *)
(***************************************************************************)
\* The amount before the last one of an item
PrevAmount(item) == item.amounts[Len(item.amounts) - 1]

LastAmount(item) == item.amounts[Len(item.amounts)]

\* |last - prev| in cents
AmountStep(item) ==
    IF LastAmount(item) >= PrevAmount(item)
    THEN LastAmount(item) - PrevAmount(item)
    ELSE PrevAmount(item) - LastAmount(item)

\* (last - prev) / prev * 100 rounded to one decimal, in tenths, halves up
RoundedPercentTenths(item) ==
    (2000 * (LastAmount(item) - PrevAmount(item)) + PrevAmount(item))
        \div (2 * PrevAmount(item))

\* The claim as it stands: null exactly when the step is at most a cent
C20_PriceChangeAsStated ==
    view = "recurring" =>
        \A i \in DOMAIN recurring :
            IF AmountStep(recurring[i]) <= 1
            THEN recurring[i].priceChange = None
            ELSE /\ recurring[i].priceChange.some
                 /\ PrevAmount(recurring[i]) > 0 =>
                        recurring[i].priceChange.val = RoundedPercentTenths(recurring[i])

\* C20, amended: priceChange is null when the previous amount is 0 or the
\* last two amounts are equal; it is the rounded percentage when the previous
\* amount is positive and the step is two cents or more; for a step of
\* exactly one cent it is null or the rounded percentage, as the comparison
\* of the doubles decides.
C20_PriceChange ==
    view = "recurring" =>
        \A i \in DOMAIN recurring :
            LET item == recurring[i]
            IN  /\ PrevAmount(item) = 0 \/ AmountStep(item) = 0 => item.priceChange = None
                /\ PrevAmount(item) > 0 /\ AmountStep(item) >= 2 =>
                       item.priceChange = Some(RoundedPercentTenths(item))
                /\ PrevAmount(item) > 0 /\ AmountStep(item) = 1 =>
                       item.priceChange \in {None, Some(RoundedPercentTenths(item))}

\* An item whose amount went from 10.01 to 12.00 shows +19.9 %.
C20_Witness ==
    /\ view = "recurring"
    /\ \E i \in DOMAIN recurring :
           /\ PrevAmount(recurring[i]) = 1001
           /\ LastAmount(recurring[i]) = 1200
           /\ recurring[i].priceChange = Some(199)

(***************************************************************************)
(* C21: for every returned item, lastDate is the latest date of the        *)
(* transactions of its group, and nextExpected is the calendar date        *)
(* exactly 7 (weekly), 14 (biweekly), 30 (monthly) or 90 (quarterly) days  *)
(* after lastDate, whatever the lengths of the months in between.          *)
(***************************************************************************)
C21_NextExpectedExactDays ==
    view = "recurring" =>
        \A i \in DOMAIN recurring :
            LET item == recurring[i]
                days == {EpochDay(transactions[j].date) :
                            j \in ExpenseIndexes(NormalizeDescription(item.description))}
                ahead == CASE item.frequency = "weekly"    -> 7
                          [] item.frequency = "biweekly"  -> 14
                          [] item.frequency = "monthly"   -> 30
                          [] item.frequency = "quarterly" -> 90
            IN  /\ EpochDay(item.lastDate) \in days
                /\ \A day \in days : day <= EpochDay(item.lastDate)
                /\ EpochDay(item.nextExpected) = EpochDay(item.lastDate) + ahead

(***************************************************************************)
(* C22: in the monthly summaries every transaction adds its amount to one  *)
(* total of one month: the income of a month is the sum of the amounts of  *)
(* its is_income transactions, its expenses the sum of the amounts of its  *)
(* other transactions, and all incomes and expenses together are the sum   *)
(* of all amounts.                                                         *)
(***************************************************************************)
\* The sum of the amounts of the transactions at the given indexes
RECURSIVE AmountsAt(_)
AmountsAt(indexes) ==
    IF indexes = {} THEN 0
    ELSE LET i == CHOOSE j \in indexes : TRUE
         IN  transactions[i].amount + AmountsAt(indexes \ {i})

RowsOfMonth(month, income) ==
    {i \in DOMAIN transactions :
        /\ transactions[i].date[1] = month[1]
        /\ transactions[i].date[2] = month[2]
        /\ transactions[i].is_income = income}

RECURSIVE TotalOfMonths(_)
TotalOfMonths(data) ==
    IF data = <<>> THEN 0
    ELSE Head(data).income + Head(data).expenses + TotalOfMonths(Tail(data))

C22_EachAmountInOneTotal ==
    view = "savings" =>
        /\ \A i \in DOMAIN savings.monthlyData :
               LET entry == savings.monthlyData[i]
               IN  /\ entry.income = AmountsAt(RowsOfMonth(entry.month, TRUE))
                   /\ entry.expenses = AmountsAt(RowsOfMonth(entry.month, FALSE))
        /\ TotalOfMonths(savings.monthlyData) = AmountsAt(DOMAIN transactions)

\* Two months, one of them with an income and an expense
C22_Witness ==
    /\ view = "savings"
    /\ Len(savings.monthlyData) >= 2
    /\ \E i \in DOMAIN savings.monthlyData :
           /\ savings.monthlyData[i].income > 0
           /\ savings.monthlyData[i].expenses > 0
           /\ Cardinality(RowsOfMonth(savings.monthlyData[i].month, FALSE)) >= 1
           /\ Cardinality(RowsOfMonth(savings.monthlyData[i].month, TRUE)) >= 1

(***************************************************************************)
(* C23: when two users call join_household_by_invite with the same pending *)
(* code at the same time, at most one call succeeds: the invite becomes    *)
(* 'used' with used_by the caller that succeeded and one membership is     *)
(* created for the seat; the other call fails with 'Invalid or expired     *)
(* invite code' and creates no membership.                                 *)
(***************************************************************************)
C23_OneJoinPerCode ==
    [][/\ \A first, second \in seatJoins' : first[3] = second[3] => first = second
       /\ \A call \in rpcCalls \ rpcCalls' :
              call.kind = "join" =>
                  /\ rpcReply'.call = call.call
                  /\ rpcReply'.error = "" =>
                         \E inv \in inviteRows' :
                             /\ inv.invite_code = LowerTrim(call.code)
                             /\ inv.status = "used"
                             /\ inv.used_by = call.caller
                             /\ members' \ members =
                                    {Member(inv.household_id, call.caller, "member")}
                             /\ seatJoins' \ seatJoins =
                                    {<<inv.id, call.caller, inv.invite_code>>}
                  /\ (\E join \in seatJoins : join[3] = LowerTrim(call.code)) =>
                         /\ rpcReply'.error = "Invalid or expired invite code"
                         /\ UNCHANGED <<members, inviteRows, seatJoins>>]_vars

\* Cy called first, Ben called with the same code and was served first:
\* Ben is the member of seat 2 and Cy's call has failed.
C23_Witness ==
    /\ rpcCount = 2
    /\ rpcCalls = {}
    /\ rpcReply = Reply(1, "cy", "join", "Invalid or expired invite code")
    /\ seatJoins = {<<2, "ben", InviteCode(2)>>}
    /\ \E inv \in inviteRows : inv.id = 2 /\ inv.status = "used" /\ inv.used_by = "ben"
    /\ ~HasMembership(members, "cy")
    /\ Member(1, "ben", "member") \in members

(***************************************************************************)
(* C24: the local list of useTransactions never holds two entries with the *)
(* same id, whatever the order of the optimistic insert of addTransaction, *)
(* the answer of the insert and the realtime INSERT event of the same row. *)
(***************************************************************************)
C24_NoDuplicateIds ==
    \A i, j \in DOMAIN transactions :
        transactions[i].id = transactions[j].id => i = j

(***************************************************************************)
(* C27: when updateTransaction, deleteTransaction or                       *)
(* bulkUpdateTransactions fails, the rollback changes only the rows the    *)
(* call named: every other row of the local list, as realtime events and   *)
(* other calls left it while the request was in flight, is in the list     *)
(* after the rollback as it was before it.                                 *)
(***************************************************************************)
OtherRows(list, ids) == {list[i] : i \in {j \in DOMAIN list : list[j].id \notin ids}}

C27_RollbackUndoesOnlyItsCall ==
    [][\A req \in txRequests :
          (/\ req.status = "answered"
           /\ req.error
           /\ req.kind \in {"update", "delete", "bulk"}
           /\ txRequests' = txRequests \ {req})
          => OtherRows(transactions', req.ids) = OtherRows(transactions, req.ids)]_vars

(***************************************************************************)
(* C28: the local list of useTransactions is ordered by date descending in *)
(* every reachable state, also after an update that changes a date.        *)
(***************************************************************************)
C28_OrderedByDateDescending ==
    \A i, j \in DOMAIN transactions :
        i < j => LocaleCompare(transactions[i].date, transactions[j].date) >= 0

(***************************************************************************)
(* C25: updateSession never passes through a request without a user whose  *)
(* path is not /login or /signup (it is redirected to /login, or to        *)
(* /auth/callback when it carries a code and asks for another path), and   *)
(* never passes through a request with a user whose path is /login or      *)
(* /signup: that request is redirected to / when it carries no code and to *)
(* /auth/callback when it carries one.                                     *)
(***************************************************************************)
C25_GuardedPagesRedirect ==
    response # NoResponse =>
        LET req == browserRequest
        IN  /\ (~req.user /\ ~isAuthPage(req.pathname))
                   => response = IF req.code /\ req.pathname # "/auth/callback"
                                 THEN Redirect("/auth/callback") ELSE Redirect("/login")
            /\ (req.user /\ isAuthPage(req.pathname))
                   => response = IF req.code THEN Redirect("/auth/callback") ELSE Redirect("/")

\* A signed-in user asks for /login and is sent home.
C25_Witness ==
    /\ browserRequest = Request("/login", FALSE, TRUE)
    /\ response = Redirect("/")

\* The claim as it stands: every request of a user for /login or /signup is
\* redirected to /.
C25_AuthPagesRedirectHome ==
    response # NoResponse =>
        LET req == browserRequest
        IN  /\ (~req.user /\ ~isAuthPage(req.pathname)) => response.kind = "redirect"
            /\ (req.user /\ isAuthPage(req.pathname)) => response = Redirect("/")

(***************************************************************************)
(* C26: the redirects of updateSession never lead the browser back to a    *)
(* path it has already asked for, so that (the redirects having three      *)
(* targets) every chain of redirects ends in a pass-through response.      *)
(***************************************************************************)
C26_NoRedirectCycle ==
    response.kind = "redirect" =>
        /\ response.pathname # browserRequest.pathname
        /\ \A i \in DOMAIN hops : hops[i] # response.pathname

(***************************************************************************)
(* C29: the wizard moves to 'done' only when the selected transactions     *)
(* were imported: confirming the review moves it to 'processing', an       *)
(* import that reports an error does not end in 'done', and a failed       *)
(* upload brings the wizard back to 'upload' with an error message.        *)
(***************************************************************************)
C29_DoneOnlyAfterImport ==
    [][/\ (step = "review" /\ wizardCall'.kind = "import") => step' = "processing"
       /\ (step # "done" /\ step' = "done")
              => /\ wizardCall.kind = "import"
                 /\ importMsg'.type = "success"
                 /\ Cardinality(dbTransactions') =
                        Cardinality(dbTransactions) + Len(wizardCall.rows)
       /\ (wizardCall.kind = "import" /\ wizardCall'.kind = "none"
              /\ importMsg'.type = "error") => step' # "done"
       /\ (wizardCall.kind = "upload" /\ wizardCall'.kind = "none" /\ step' # "review")
              => step' = "upload" /\ wizardError' # ""]_vars

(***************************************************************************)
(* C30: detectRecurring returns the same items in the same order for every *)
(* order of the same transactions: the description, category, amounts,     *)
(* priceChange and lastDate of every item are those of the list rendered.  *)
(***************************************************************************)
ListedFields(items) ==
    [i \in DOMAIN items |->
        [description |-> items[i].description, category |-> items[i].category,
         amounts |-> items[i].amounts, priceChange |-> items[i].priceChange,
         lastDate |-> items[i].lastDate]]

C30_OrderIndependent ==
    view = "recurring" =>
        \A p \in Permutations(DOMAIN transactions) :
            ListedFields(detectRecurring([i \in DOMAIN transactions |-> transactions[p[i]]]))
                = ListedFields(recurring)

====
